---- MODULE Spec2Model ----
(***************************************************************************)
(* PlanProof: the deterministic field mapper (pipeline/field_mapper.py)    *)
(* and its caller in the extraction pipeline (pipeline/extract.py).        *)
(*                                                                         *)
(* Text is modelled character by character: a block's content is a string, *)
(* and every regular expression and substring test of the source is an     *)
(* operator that scans the characters the way Python's re module does.     *)
(* Confidences are hundredths (0.95 is 95).                                *)
(***************************************************************************)
EXTENDS Integers, Sequences, FiniteSets, TLC

\* ------------------------------------------------------------------------
\* Characters and strings (Python str methods used by field_mapper.py)
\* ------------------------------------------------------------------------

UpperAlphabet == "ABCDEFGHIJKLMNOPQRSTUVWXYZ"
LowerAlphabet == "abcdefghijklmnopqrstuvwxyz"
DigitAlphabet == "0123456789"

Chars(alphabet) == {SubSeq(alphabet, i, i) : i \in 1..Len(alphabet)}

UpperSet == Chars(UpperAlphabet)
LowerSet == Chars(LowerAlphabet)
DigitSet == Chars(DigitAlphabet)
AlphaSet == UpperSet \cup LowerSet
\* \w of the re module, on ASCII text
WordSet == AlphaSet \cup DigitSet \cup {"_"}
\* \s of the re module, on the characters a block can hold
SpaceSet == {" ", "\t", "\n"}

LowerMap == [c \in UpperSet |->
               LET i == CHOOSE k \in 1..Len(UpperAlphabet) : SubSeq(UpperAlphabet, k, k) = c
               IN  SubSeq(LowerAlphabet, i, i)]
UpperMap == [c \in LowerSet |->
               LET i == CHOOSE k \in 1..Len(LowerAlphabet) : SubSeq(LowerAlphabet, k, k) = c
               IN  SubSeq(UpperAlphabet, i, i)]

\* The character of s at position i, "" outside the string.
At(s, i) == IF i >= 1 /\ i <= Len(s) THEN SubSeq(s, i, i) ELSE ""

\* The strings are built by halving the range, which keeps the evaluation
\* shallow on long texts; a range the conversion leaves alone is copied.

LowerChar(c) == IF c \in UpperSet THEN LowerMap[c] ELSE c
UpperChar(c) == IF c \in LowerSet THEN UpperMap[c] ELSE c

\* s.lower() on the characters lo..hi of s
RECURSIVE LowerRange(_, _, _)
LowerRange(s, lo, hi) ==
    IF \A i \in lo..hi : SubSeq(s, i, i) \notin UpperSet THEN SubSeq(s, lo, hi)
    ELSE IF lo = hi THEN LowerChar(SubSeq(s, lo, lo))
    ELSE LowerRange(s, lo, (lo + hi) \div 2) \o LowerRange(s, ((lo + hi) \div 2) + 1, hi)

ToLower(s) == LowerRange(s, 1, Len(s))

\* s.upper() on the characters lo..hi of s
RECURSIVE UpperRange(_, _, _)
UpperRange(s, lo, hi) ==
    IF \A i \in lo..hi : SubSeq(s, i, i) \notin LowerSet THEN SubSeq(s, lo, hi)
    ELSE IF lo = hi THEN UpperChar(SubSeq(s, lo, lo))
    ELSE UpperRange(s, lo, (lo + hi) \div 2) \o UpperRange(s, ((lo + hi) \div 2) + 1, hi)

ToUpper(s) == UpperRange(s, 1, Len(s))

\* sub in s
Contains(s, sub) ==
    \E i \in 1..(Len(s) - Len(sub) + 1) : SubSeq(s, i, i + Len(sub) - 1) = sub

ContainsAny(s, subs) == \E sub \in subs : Contains(s, sub)

\* s.find(sub) + 1: the first position of sub in s, 0 when absent
Find(s, sub) ==
    LET hits == {i \in 1..(Len(s) - Len(sub) + 1) : SubSeq(s, i, i + Len(sub) - 1) = sub}
    IN  IF hits = {} THEN 0 ELSE CHOOSE i \in hits : \A j \in hits : i <= j

StartsWith(s, pre) == Len(s) >= Len(pre) /\ SubSeq(s, 1, Len(pre)) = pre
EndsWith(s, suf) == Len(s) >= Len(suf) /\ SubSeq(s, Len(s) - Len(suf) + 1, Len(s)) = suf

\* s[:n]
Prefix(s, n) == IF Len(s) <= n THEN s ELSE SubSeq(s, 1, n)

Min(a, b) == IF a <= b THEN a ELSE b
Max(a, b) == IF a >= b THEN a ELSE b

\* s.strip()
Inked(s, i) == SubSeq(s, i, i) \notin SpaceSet

Strip(s) ==
    IF s = "" \/ (Inked(s, 1) /\ Inked(s, Len(s))) THEN s
    ELSE IF \A i \in 1..Len(s) : ~Inked(s, i) THEN ""
    ELSE SubSeq(s, CHOOSE i \in 1..Len(s) : Inked(s, i) /\ \A j \in 1..(i - 1) : ~Inked(s, j),
                   CHOOSE i \in 1..Len(s) :
                      Inked(s, i) /\ \A j \in (i + 1)..Len(s) : ~Inked(s, j))

\* re.sub(r"\s+", " ", s) on the characters lo..hi of s: the first character
\* of a run of whitespace becomes one space, the rest of the run goes
Collapsed(s, i) ==
    IF At(s, i) \notin SpaceSet THEN At(s, i)
    ELSE IF At(s, i - 1) \in SpaceSet THEN "" ELSE " "

RECURSIVE CollapseRange(_, _, _)
CollapseRange(s, lo, hi) ==
    IF \A i \in lo..hi : Collapsed(s, i) = SubSeq(s, i, i) THEN SubSeq(s, lo, hi)
    ELSE IF lo = hi THEN Collapsed(s, lo)
    ELSE CollapseRange(s, lo, (lo + hi) \div 2)
            \o CollapseRange(s, ((lo + hi) \div 2) + 1, hi)

CollapseSpaces(s) == CollapseRange(s, 1, Len(s))

\* _norm on a string
NormStr(s) == Strip(CollapseSpaces(s))

\* str(n) for n >= 0
RECURSIVE IntStr(_)
IntStr(n) ==
    IF n < 10 THEN SubSeq(DigitAlphabet, n + 1, n + 1)
    ELSE IntStr(n \div 10) \o SubSeq(DigitAlphabet, (n % 10) + 1, (n % 10) + 1)

\* \b of the re module at the gap before position i (1..Len(s)+1)
WordBoundary(s, i) == (At(s, i - 1) \in WordSet) # (At(s, i) \in WordSet)

\* The end of the maximal run of characters of cls starting at position i
\* (i - 1 when the run is empty).
RunEnd(s, i, cls) ==
    IF i > Len(s) THEN i - 1
    ELSE IF \A j \in i..Len(s) : At(s, j) \in cls THEN Len(s)
    ELSE (CHOOSE j \in i..Len(s) :
            At(s, j) \notin cls /\ \A k \in i..(j - 1) : At(s, k) \in cls) - 1

\* The least and the greatest element of a set of positions, 0 for the empty
\* set.
First(S) == IF S = {} THEN 0 ELSE CHOOSE i \in S : \A j \in S : i <= j
Last(S) == IF S = {} THEN 0 ELSE CHOOSE i \in S : \A j \in S : i >= j

\* ------------------------------------------------------------------------
\* Pattern library (field_mapper.py lines 8-54)
\* ------------------------------------------------------------------------

AlnumSet == AlphaSet \cup DigitSet

\* The first of two alternatives that matched (0 is no match)
PreferFirst(a, b) == IF a # 0 THEN a ELSE b

\* \s*\d[A-Z]{2} from position j, with the trailing \b when wordEnd: the end of
\* the match, 0 when there is none
PostcodeTailFrom(s, k, wordEnd) ==
    IF /\ At(s, k) \in DigitSet
       /\ At(s, k + 1) \in AlphaSet
       /\ At(s, k + 2) \in AlphaSet
       /\ (wordEnd => WordBoundary(s, k + 3))
    THEN k + 2 ELSE 0

PostcodeTailEnd(s, j, wordEnd) == PostcodeTailFrom(s, RunEnd(s, j, SpaceSet) + 1, wordEnd)

\* \d[A-Z\d]? and the tail from position d: the optional character is tried
\* first (greedy), then left out
PostcodeDigitEnd(s, d, wordEnd) ==
    IF At(s, d) \notin DigitSet THEN 0
    ELSE PreferFirst(IF At(s, d + 1) \in AlnumSet THEN PostcodeTailEnd(s, d + 2, wordEnd) ELSE 0,
                     PostcodeTailEnd(s, d + 1, wordEnd))

\* [A-Z]{1,2}\d[A-Z\d]?\s*\d[A-Z]{2} (re.I) matched at position i: the end of
\* the match, 0 when there is none; wordEnd adds the trailing \b.  A second
\* letter is taken when there is one (a letter is no digit, so giving it back
\* cannot help).
PostcodeShapeEnd(s, i, wordEnd) ==
    IF At(s, i) \notin AlphaSet THEN 0
    ELSE PostcodeDigitEnd(s, IF At(s, i + 1) \in AlphaSet THEN i + 2 ELSE i + 1, wordEnd)

NoMatch == [found |-> FALSE, start |-> 0, end |-> 0]

\* The match a search returns, ends[i] being the end of the match starting at
\* position i (0 for none): the leftmost start
MatchAt(ends, i) == IF i = 0 THEN NoMatch ELSE [found |-> TRUE, start |-> i, end |-> ends[i]]
FirstMatch(ends) == MatchAt(ends, First({i \in DOMAIN ends : ends[i] # 0}))

\* POSTCODE_RE.search(s)
PostcodeSearch(s) ==
    FirstMatch([i \in 1..Len(s) |->
                  IF WordBoundary(s, i) THEN PostcodeShapeEnd(s, i, TRUE) ELSE 0])

\* m.group(...) of a match
Group(s, m) == SubSeq(s, m.start, m.end)

MinRefDigits == 6
MaxRefLetters == 3

\* PP-\d{6,}\b at position i, e1 the end of the digits after "PP-"
PortalRefEnd(s, i, e1) ==
    IF /\ ToLower(SubSeq(s, i, Min(i + 2, Len(s)))) = "pp-"
       /\ e1 - (i + 3) + 1 >= MinRefDigits
       /\ WordBoundary(s, e1 + 1)
    THEN e1 ELSE 0

\* [A-Z]{1,3}\b after the digits ending at e2, f2 the end of the letters
YearRefLetters(s, e2, f2) ==
    IF f2 - e2 >= 1 /\ f2 - e2 <= MaxRefLetters /\ WordBoundary(s, f2 + 1) THEN f2 ELSE 0

\* 20\d{6,}[A-Z]{1,3}\b at position i, e2 the end of the digits after "20"
YearRefEnd(s, i, e2) ==
    IF SubSeq(s, i, Min(i + 1, Len(s))) = "20" /\ e2 - (i + 2) + 1 >= MinRefDigits
    THEN YearRefLetters(s, e2, RunEnd(s, e2 + 1, AlphaSet)) ELSE 0

\* APPREF_RE at position i: PP-\d{6,} or 20\d{6,}[A-Z]{1,3}, then \b
AppRefEnd(s, i) ==
    PreferFirst(PortalRefEnd(s, i, RunEnd(s, i + 3, DigitSet)),
                YearRefEnd(s, i, RunEnd(s, i + 2, DigitSet)))

\* APPREF_RE.search(s)
AppRefSearch(s) ==
    FirstMatch([i \in 1..Len(s) |-> IF WordBoundary(s, i) THEN AppRefEnd(s, i) ELSE 0])

EmailLocalSet == AlnumSet \cup {".", "_", "%", "+", "-"}
EmailDomainSet == AlnumSet \cup {".", "-"}

\* \.[A-Z]{2,}\b after a domain ending at k, e the end of the letters
EmailTldEnd(s, k, e) ==
    IF At(s, k + 1) = "." /\ e - (k + 2) + 1 >= 2 /\ WordBoundary(s, e + 1) THEN e ELSE 0

\* The end the longest domain gives, tails[k] being the end for the domain
\* ending at k
LongestEnd(tails, k) == IF k = 0 THEN 0 ELSE tails[k]

\* [A-Z0-9.-]+\.[A-Z]{2,}\b from position from, r the end of the run of domain
\* characters: the domain is the longest prefix of the run that is followed
\* by "." and two or more letters ending at a word boundary
EmailDomainEnd(s, from, r) ==
    LongestEnd([k \in from..r |-> EmailTldEnd(s, k, RunEnd(s, k + 2, AlphaSet))],
               Last({k \in from..r : EmailTldEnd(s, k, RunEnd(s, k + 2, AlphaSet)) # 0}))

\* EMAIL_RE at position i, a the end of the local part, which runs up to "@"
EmailFrom(s, i, a) ==
    IF a >= i /\ At(s, a + 1) = "@"
    THEN EmailDomainEnd(s, a + 2, RunEnd(s, a + 2, EmailDomainSet)) ELSE 0

EmailEnd(s, i) == EmailFrom(s, i, RunEnd(s, i, EmailLocalSet))

\* EMAIL_RE.search(s)
EmailSearch(s) ==
    FirstMatch([i \in 1..Len(s) |-> IF WordBoundary(s, i) THEN EmailEnd(s, i) ELSE 0])

PhoneBodySet == DigitSet \cup SpaceSet \cup {"(", ")", ".", "-"}
MinPhoneBody == 8

\* \d[\d\s().-]{8,}\d\b from the first digit at d0, m the end of the run of
\* body characters: the body as long as it can be
PhoneBodyEnd(s, d0, m) ==
    Last({e \in (d0 + MinPhoneBody + 1)..m : At(s, e) \in DigitSet /\ WordBoundary(s, e + 1)})

PhoneFrom(s, d0) ==
    IF At(s, d0) \in DigitSet THEN PhoneBodyEnd(s, d0, RunEnd(s, d0 + 1, PhoneBodySet)) ELSE 0

\* PHONE_RE at position i: \+?\d[\d\s().-]{8,}\d then \b
PhoneEnd(s, i) == PhoneFrom(s, IF At(s, i) = "+" THEN i + 1 ELSE i)

\* PHONE_RE.search(s)
PhoneSearch(s) ==
    FirstMatch([i \in 1..Len(s) |-> IF WordBoundary(s, i) THEN PhoneEnd(s, i) ELSE 0])

DateSepSet == {".", "/", "-"}
AllDigits(s, from, to) == \A k \in from..to : At(s, k) \in DigitSet

\* \d{1,2}[./-]\d{1,2}[./-]\d{2,4} then \b, the first number ending before s1
\* and the second before s2, the third c3 digits long
DateFrom(s, s1, s2, c3) ==
    /\ At(s, s1) \in DateSepSet
    /\ AllDigits(s, s1 + 1, s2 - 1)
    /\ At(s, s2) \in DateSepSet
    /\ AllDigits(s, s2 + 1, s2 + c3)
    /\ WordBoundary(s, s2 + c3 + 1)

\* DATE_LIKE.search(s) is not None
DateLike(s) ==
    \E i \in 1..Len(s), c1 \in 1..2, c2 \in 1..2, c3 \in 2..4 :
        /\ WordBoundary(s, i)
        /\ AllDigits(s, i, i + c1 - 1)
        /\ DateFrom(s, i + c1, i + c1 + 1 + c2, c3)

\* looks_like_phone
looks_like_phone(s) == ~DateLike(s)

AddressSet == UpperSet \cup DigitSet \cup {"'", "-", " "}
MinAddressTail == 4

\* [A-Z0-9'\- ]{4,}$ starting at some position of from..to
AddressTail(t, from, to) ==
    \E k \in from..to :
        /\ Len(t) - k + 1 >= MinAddressTail
        /\ \A j \in k..Len(t) : At(t, j) \in AddressSet

\* \d+\s+ from position from, d the end of the digits; the whitespace may
\* give back all but its first character
AddressNumber(t, from, d) ==
    d >= from /\ AddressTail(t, d + 2, RunEnd(t, d + 1, SpaceSet) + 1)

\* ADDRESS_LIKE.match(t) is not None: ^\s*\d+\s+[A-Z0-9'\- ]{4,}$, case-sensitive
AddressFrom(t, from) == AddressNumber(t, from, RunEnd(t, from, DigitSet))
AddressLike(t) == AddressFrom(t, RunEnd(t, 1, SpaceSet) + 1)

\* a whole-word occurrence of w in s: \b w \b
ContainsWord(s, w) ==
    \E i \in 1..(Len(s) - Len(w) + 1) :
        /\ SubSeq(s, i, i + Len(w) - 1) = w
        /\ WordBoundary(s, i)
        /\ WordBoundary(s, i + Len(w))

ProposalWords ==
    {"propos", "development", "conversion", "use", "hmo", "extension", "loft", "dormer"}

\* PROPOSAL_HINTS.search(t) is not None (re.I)
ProposalHint(t) == \E w \in ProposalWords : ContainsWord(ToLower(t), w)


\* A document-type hint: literal pieces separated by \s*, optionally between \b
Lit(p) == [pieces |-> <<p>>, word |-> FALSE]
Spaced(ps) == [pieces |-> ps, word |-> FALSE]
Word(p) == [pieces |-> <<p>>, word |-> TRUE]

\* DOC_TYPE_HINTS, each type's hints in the order of the source
DOC_TYPE_HINTS ==
    [application_form |->
        << Lit("application form"), Lit("planning application"),
           Lit("town and country planning"), Lit("planning portal reference"),
           Lit("application to determine if prior approval"),
           Lit("i/we hereby apply for prior approval"), Lit("prior approval") >>,
     site_notice |->
        << Lit("statement of display of a site notice"), Lit("site notice of application"),
           Lit("site notice"), Lit("notice of application") >>,
     site_plan |->
        << Spaced(<<"location", "&", "block", "plan">>), Lit("location plan"),
           Lit("block plan"), Word("1:1250"), Word("1:500"), Word("1:2500") >>,
     drawing |->
        << Lit("existing"), Lit("proposed"), Lit("elevation"), Lit("floor plan"),
           Lit("section") >>,
     design_statement |->
        << Lit("design and access statement"), Spaced(<<"design", "&", "access">>) >>,
     heritage |->
        << Lit("heritage statement"), Lit("listed building"), Lit("conservation area") >>]

\* LABEL_PATTERNS, in the order of the source
LabelFields ==
    << "site_address", "proposal_description", "applicant_name", "agent_name", "proposed_use" >>

LABEL_PATTERNS ==
    [site_address |-> {"site address", "address of site", "site location"},
     proposal_description |->
        {"proposal", "description of development", "proposed development",
         "what are you proposing"},
     applicant_name |-> {"applicant name", "name of applicant", "first name", "surname"},
     agent_name |-> {"agent name", "name of agent"},
     proposed_use |->
        {"i/we hereby apply for prior approval", "prior approval for", "declaration"}]

\* The end of a match of the hint's pieces starting at position i, 0 if none
RECURSIVE PiecesEnd(_, _, _)
PiecesEnd(s, i, pieces) ==
    LET p == Head(pieces)
        e == i + Len(p) - 1
    IN  IF e > Len(s) \/ SubSeq(s, i, e) # p THEN 0
        ELSE IF Len(pieces) = 1 THEN e
        ELSE PiecesEnd(s, RunEnd(s, e + 1, SpaceSet) + 1, Tail(pieces))

\* re.search(h, text) is not None for a hint h
HintMatches(text, h) ==
    \E i \in 1..Len(text) :
        LET e == PiecesEnd(text, i, h.pieces)
        IN  e # 0 /\ (h.word => WordBoundary(text, i) /\ WordBoundary(text, e + 1))

MinCapsLetters == 8

\* _looks_like_allcaps: at least 8 letters, more than 80% of them upper case
looks_like_allcaps(s) ==
    LET letters == Cardinality({i \in 1..Len(s) : At(s, i) \in AlphaSet})
        upp     == Cardinality({i \in 1..Len(s) : At(s, i) \in UpperSet})
    IN  IF letters < MinCapsLetters THEN FALSE
        ELSE upp * 10 > 8 * Max(1, letters)

NoiseMarkers ==
    {"copyright", "notes:", "scale", "printed on", "os 1000", "disclaimer",
     "this drawing", "for information only"}

\* _is_noise
is_noise(s) == ContainsAny(ToLower(s), NoiseMarkers)

CouncilIndicators ==
    {"birmingham.gov.uk", "planning.registration", "council", "local authority",
     "planning department", "planning@", "0121 464", "po box"}

\* _is_council_contact
is_council_contact(s) == ContainsAny(ToLower(s), CouncilIndicators)

\* re.split(sep, t, maxsplit=1) for the alternation of the literals seps:
\* <<t>> when no separator occurs, else the text before and after the first
\* occurrence (the earliest position; at one position the first alternative
\* that matches, and no two of the separators used start alike)
SplitOnce(t, seps) ==
    LET hits == {i \in 1..Len(t) : \E sep \in seps : SubSeq(t, i, Min(Len(t), i + Len(sep) - 1)) = sep}
        i    == First(hits)
        sep  == CHOOSE x \in seps : SubSeq(t, i, Min(Len(t), i + Len(x) - 1)) = x
    IN  IF hits = {} THEN << t >>
        ELSE << SubSeq(t, 1, i - 1), SubSeq(t, i + Len(sep), Len(t)) >>

\* ------------------------------------------------------------------------
\* Blocks: Python dicts whose keys may be absent or hold None
\* ------------------------------------------------------------------------

\* A dict entry: k is "absent" (no such key), "none" (None) or "val"
Absent(default) == [k |-> "absent", v |-> default]
None(default) == [k |-> "none", v |-> default]
Val(v) == [k |-> "val", v |-> v]

\* d.get(key, default) for the entry e of the key
Get(e, default) == IF e.k = "absent" THEN default ELSE e

\* b.get("content", b.get("text", ""))
ContentOf(b) == Get(b.content, Get(b.text, Val("")))

\* _norm(s): (s or "") with its whitespace collapsed
norm(e) == NormStr(IF e.k = "val" THEN e.v ELSE "")

\* b.get("page_number", b.get("page", 0))
PageOf(b) == Get(b.page_number, Get(b.page, Val(0)))

\* f"p{page_num}b{b.get('index', '')}"
BlockId(page_num, b) ==
    "p" \o IntStr(page_num) \o "b" \o
    (CASE b.index.k = "absent" -> ""
       [] b.index.k = "none" -> "None"
       [] OTHER -> IntStr(b.index.v))

SnippetCap == 240

\* The entry with the text cut to 240 characters before it is normalized
EvidenceEntryCutFirst(page, block_id, snippet, confidence, source_doc_type) ==
    [page |-> page, block_id |-> block_id,
     snippet |-> NormStr(Prefix(IF snippet.k = "val" THEN snippet.v ELSE "", SnippetCap)),
     confidence |-> confidence, source_doc_type |-> source_doc_type]

\* The entry _add_ev appends
EvidenceEntry(page, block_id, snippet, confidence, source_doc_type) ==
    [page |-> page, block_id |-> block_id, snippet |-> Prefix(norm(snippet), SnippetCap),
     confidence |-> confidence, source_doc_type |-> source_doc_type]

\* blocks[:n] as the positions 1..Min(n, Len(blocks))
Upto(blocks, n) == 1..Min(n, Len(blocks))

\* A strategy's result: found, the value, the position of the source block
\* in blocks, and the confidence
NotFound == [found |-> FALSE, value |-> "", src |-> 0, conf |-> 0]
Found(value, src, conf) == [found |-> TRUE, value |-> value, src |-> src, conf |-> conf]

\* ------------------------------------------------------------------------
\* Context scorers
\* ------------------------------------------------------------------------

SectionHeaders ==
    {"site location", "site address", "address of site", "location of site",
     "property address"}
SectionLookback == 10

\* The look-back with the block itself in its range
in_section_or_header(blocks, i) ==
    \E j \in Max(1, i - SectionLookback)..i :
        ContainsAny(ToLower(norm(ContentOf(blocks[j]))), SectionHeaders)

\* _is_in_site_location_section(blocks, block_index), block_index = i - 1
is_in_site_location_section(blocks, i) ==
    \E j \in Max(1, i - SectionLookback)..(i - 1) :
        ContainsAny(ToLower(norm(ContentOf(blocks[j]))), SectionHeaders)

\* ------------------------------------------------------------------------
\* Site address, strategy 1: the structured "Site location" section
\* ------------------------------------------------------------------------

StructuredHeaders == {"site location", "site address", "address of site", "property address"}
StructuredScanCap == 200
StructuredWindow == 20

NoParts == [property_name |-> "", address_line1 |-> "", address_line2 |-> "",
            town_city |-> "", postcode |-> ""]

\* m.group(1).upper() of a match m in s, "" without a match
UpperGroup(s, m) == IF m.found THEN ToUpper(Group(s, m)) ELSE ""

\* postcode_match.group(1).upper() of a search in s, "" without a match
PostcodeIn(s) == UpperGroup(s, PostcodeSearch(s))

\* parts[1] of a split in two, "" of a split in one
Second(parts) == IF Len(parts) = 2 THEN parts[2] ELSE ""

\* An assignment to one of the address parts under a condition
SetPart(acc, part, value, cond) == IF cond THEN [acc EXCEPT ![part] = value] ELSE acc

\* lines 146-174, the "Label: value" tests, one after the other: tl is the
\* lower-cased text, two says that the text split in two at its first ":",
\* value is the normalized text after it and pcode the postcode found in it;
\* an unset part and an empty one are both ""
Labelled(acc, tl, two, value, pcode) ==
    SetPart(
      SetPart(
        SetPart(
          SetPart(
            SetPart(acc, "property_name", value,
                    Contains(tl, "property name") /\ acc.property_name = "" /\ two),
            "address_line1", value,
            /\ \/ Contains(tl, "address line 1")
               \/ Contains(tl, "address") /\ Contains(tl, "line") /\ Contains(tl, "1")
            /\ two),
          "address_line2", value,
          /\ \/ Contains(tl, "address line 2")
             \/ Contains(tl, "address") /\ Contains(tl, "line") /\ Contains(tl, "2")
          /\ two),
        "town_city", value,
        (Contains(tl, "town") \/ Contains(tl, "city")) /\ two),
      "postcode", pcode,
      Contains(tl, "postcode") /\ two /\ pcode # "")

\* lines 177-194, the value on the line after its label: prev_t is the
\* lower-cased text of the block before (of no block when the block is the
\* first after the header), pcode the postcode found in t
FollowsLabel(acc, prev_t, t, pcode) ==
    IF Contains(prev_t, "property name") /\ acc.property_name = ""
    THEN [acc EXCEPT !.property_name = t]
    ELSE IF (Contains(prev_t, "address line 1") \/ Contains(prev_t, "address"))
            /\ acc.address_line1 = ""
    THEN [acc EXCEPT !.address_line1 = t]
    ELSE IF Contains(prev_t, "address line 2") /\ acc.address_line2 = ""
    THEN [acc EXCEPT !.address_line2 = t]
    ELSE IF (Contains(prev_t, "town") \/ Contains(prev_t, "city")) /\ acc.town_city = ""
    THEN [acc EXCEPT !.town_city = t]
    ELSE IF Contains(prev_t, "postcode") /\ acc.postcode = "" /\ pcode # ""
    THEN [acc EXCEPT !.postcode = pcode]
    ELSE acc

LabelledText(acc, t, after) ==
    Labelled(acc, ToLower(t), Len(SplitOnce(t, {":"})) = 2, NormStr(after), PostcodeIn(after))

\* One pass of the loop body (lines 139-194) over a block of normalized text t
SectionStep(acc, t, prev_t) ==
    IF t = "" \/ is_noise(t) \/ Len(t) < 2 THEN acc
    ELSE FollowsLabel(LabelledText(acc, t, Second(SplitOnce(t, {":"}))), prev_t, t,
                      PostcodeIn(t))

\* The loop body over the block at position i, the header at position h
SectionBody(blocks, h, i, acc) ==
    SectionStep(acc, norm(ContentOf(blocks[i])),
                IF i > h + 1 THEN ToLower(norm(ContentOf(blocks[i - 1]))) ELSE "")

\* range(start_idx + 1, min(start_idx + 20, len(blocks))): the positions
\* i..last after the header at position h. The parts are compared on every
\* pass, so that they are evaluated pass by pass.
RECURSIVE SectionCollect(_, _, _, _, _)
SectionCollect(blocks, h, i, last, acc) ==
    IF acc = NoParts /\ i > last THEN NoParts
    ELSE IF i > last THEN acc
    ELSE SectionCollect(blocks, h, i + 1, last, SectionBody(blocks, h, i, acc))

\* ", ".join(parts) of the non-empty parts
JoinComma(head, rest) ==
    IF head = "" THEN rest ELSE IF rest = "" THEN head ELSE head \o ", " \o rest

RECURSIVE JoinNonEmpty(_)
JoinNonEmpty(parts) ==
    IF parts = << >> THEN "" ELSE JoinComma(Head(parts), JoinNonEmpty(Tail(parts)))

\* lines 197-213: the parts in their fixed order
StructuredAddress(acc) ==
    JoinNonEmpty(<< acc.property_name, acc.address_line1, acc.address_line2, acc.town_city,
                    acc.postcode >>)

\* A strategy returns the value with its source block, or nothing
FoundIf(value, src, conf) == IF value = "" THEN NotFound ELSE Found(value, src, conf)

\* The section after the header at position h (Python's start_idx is h - 1, and
\* its range ends before min(start_idx + 20, len)); the source block is the
\* header's
StructuredFrom(blocks, h) ==
    IF h = 0 THEN NotFound
    ELSE FoundIf(StructuredAddress(
                    SectionCollect(blocks, h, h + 1,
                                   Min((h - 1) + StructuredWindow, Len(blocks)), NoParts)),
                 h, 95)

\* extract_site_address_from_section
extract_site_address_from_section(blocks) ==
    StructuredFrom(blocks,
                   First({i \in Upto(blocks, StructuredScanCap) :
                            ContainsAny(ToLower(norm(ContentOf(blocks[i]))), StructuredHeaders)}))

\* ------------------------------------------------------------------------
\* Site address, strategy 2: "demolition of ... <postcode>"
\* ------------------------------------------------------------------------

DemolitionScanCap == 100
MinDemolitionLen == 10

NoDemolition == [found |-> FALSE, group1 |-> "", group2 |-> ""]

\* (.+?)(?:\s+(<postcode shape>)) from position g0: group 1 is the shortest
\* text followed by whitespace and a postcode shape, pcEnds[g] being the end of
\* the shape after the whitespace that follows position g (0 for none)
DemolitionGroupsAt(t, g0, pcEnds, ge) ==
    IF ge = 0 THEN NoDemolition
    ELSE [found |-> TRUE,
          group1 |-> SubSeq(t, g0, ge),
          group2 |-> SubSeq(t, RunEnd(t, ge + 1, SpaceSet) + 1, pcEnds[ge])]

DemolitionGroups(t, g0, pcEnds) ==
    DemolitionGroupsAt(t, g0, pcEnds, First({g \in DOMAIN pcEnds : pcEnds[g] # 0}))

\* \s+ after "of", w1 the end of "demolition" and its whitespace, w2 the end
\* of the whitespace after "of"
DemolitionAfterOf(t, w1, w2) ==
    IF w2 < w1 + 3 THEN NoDemolition
    ELSE DemolitionGroups(t, w2 + 1,
                          [g \in (w2 + 1)..Len(t) |->
                             IF At(t, g + 1) \in SpaceSet
                             THEN PostcodeShapeEnd(t, RunEnd(t, g + 1, SpaceSet) + 1, FALSE)
                             ELSE 0])

\* \s+of after "demolition" at position i, w1 the end of the whitespace
DemolitionOf(t, i, w1) ==
    IF w1 >= i + 10 /\ ToLower(SubSeq(t, w1 + 1, Min(Len(t), w1 + 2))) = "of"
    THEN DemolitionAfterOf(t, w1, RunEnd(t, w1 + 3, SpaceSet))
    ELSE NoDemolition

\* re.search(r"demolition\s+of\s+(.+?)(?:\s+(<postcode shape>))", t, re.I) on a
\* normalized t (no newline, so "." is any character), at position i
DemolitionMatchAt(t, i) ==
    IF ToLower(SubSeq(t, i, Min(Len(t), i + 9))) = "demolition"
    THEN DemolitionOf(t, i, RunEnd(t, i + 10, SpaceSet))
    ELSE NoDemolition

\* The match at the leftmost position that has one
LeftmostFound(ms, i) == IF i = 0 THEN NoDemolition ELSE ms[i]

DemolitionFirst(ms) == LeftmostFound(ms, First({i \in DOMAIN ms : ms[i].found}))

DemolitionSearch(t) == DemolitionFirst([i \in 1..Len(t) |-> DemolitionMatchAt(t, i)])

\* re.sub(r",\s*$", "", s) on a stripped s: one trailing comma goes
StripTrailingComma(s) == IF EndsWith(s, ",") THEN SubSeq(s, 1, Len(s) - 1) ELSE s

\* line 241: the address is kept when it is longer than 10 characters
LongerThan(s, n) == IF Len(s) > n THEN s ELSE ""

\* lines 233-242: the address of a match
DemolitionFull(m) ==
    IF m.found
    THEN LongerThan(StripTrailingComma(Strip(m.group1)) \o ", " \o ToUpper(m.group2),
                    MinDemolitionLen)
    ELSE ""

DemolitionText(t, tl) ==
    IF Contains(tl, "demolition of") \/ Contains(tl, "demolition")
    THEN DemolitionFull(DemolitionSearch(t)) ELSE ""

DemolitionNorm(t) == DemolitionText(t, ToLower(t))

\* The address the loop body (lines 224-242) returns for a block's text, ""
\* when it returns nothing
DemolitionAddress(e) == DemolitionNorm(norm(e))

\* The first block that gives a value, values[i] being the value the block at
\* position i gives ("" for none)
ValueAt(values, i, conf) == IF i = 0 THEN NotFound ELSE Found(values[i], i, conf)
FirstValue(values, conf) == ValueAt(values, First({i \in DOMAIN values : values[i] # ""}), conf)

\* extract_address_from_demolition_pattern
extract_address_from_demolition_pattern(blocks) ==
    FirstValue([j \in Upto(blocks, DemolitionScanCap) |->
                  DemolitionAddress(ContentOf(blocks[j]))], 85)

\* ------------------------------------------------------------------------
\* Site address, strategy 3: the plan-sheet heuristic, and the arbitration
\* ------------------------------------------------------------------------

HeuristicScanCap == 100
MinHeuristicLen == 5
MinLabelValueLen == 5

\* \s*$ from position from
SpaceToEnd(t, from) == RunEnd(t, from, SpaceSet) = Len(t)

\* \d+\s*$ from position from, d the end of the digits
NumberToEnd(t, from, d) == d >= from /\ SpaceToEnd(t, d + 1)

\* \s+\d+\s*$ from position from, w the end of the whitespace
SecondNumber(t, from, w) == w >= from /\ NumberToEnd(t, w + 1, RunEnd(t, w + 1, DigitSet))

\* \d+\s+\d+\s*$ from position from, d the end of the digits
FirstNumber(t, from, d) == d >= from /\ SecondNumber(t, d + 1, RunEnd(t, d + 1, SpaceSet))

GridFrom(t, from) == FirstNumber(t, from, RunEnd(t, from, DigitSet))

\* re.match(r"^\s*\d+\s+\d+\s*$", t)
IsGridReference(t) == GridFrom(t, RunEnd(t, 1, SpaceSet) + 1)

NumberFrom(t, from) == NumberToEnd(t, from, RunEnd(t, from, DigitSet))

\* re.match(r"^\s*\d+\s*$", t)
IsNumber(t) == NumberFrom(t, RunEnd(t, 1, SpaceSet) + 1)

HeuristicLabels == {"site address", "address of site", "site location"}

NoCandidate == [value |-> "", conf |-> 0]

\* lines 286-305: the two patterns, val the normalized text after the first
\* ":" of t ("" when there is none)
CandidatePattern(t, tl, val, in_site_section) ==
    IF AddressLike(t)
    THEN [value |-> t, conf |-> IF in_site_section THEN 70 ELSE 40]
    ELSE IF ContainsAny(tl, HeuristicLabels) /\ val # "" /\ Len(val) > MinLabelValueLen
    THEN [value |-> val, conf |-> IF in_site_section THEN 80 ELSE 60]
    ELSE NoCandidate

\* lines 270-284: the blocks the loop skips
CandidateText(t, tl, in_site_section) ==
    IF t = "" \/ is_noise(t) THEN NoCandidate
    ELSE IF Len(t) < MinHeuristicLen \/ Contains(tl, "disclaimer")
            \/ Contains(tl, "for information")
    THEN NoCandidate
    ELSE IF IsGridReference(t) \/ IsNumber(t) THEN NoCandidate
    ELSE CandidatePattern(t, tl, NormStr(Second(SplitOnce(t, {":"}))), in_site_section)

CandidateNorm(t, in_site_section) == CandidateText(t, ToLower(t), in_site_section)

\* The candidate the loop body (lines 270-307) scores for the block at
\* position i: conf 0 when the block is skipped or matches neither pattern
HeuristicCandidate(blocks, i) ==
    CandidateNorm(norm(ContentOf(blocks[i])), is_in_site_location_section(blocks, i))

CandidateAt(cand, best) ==
    IF best = 0 THEN NotFound ELSE Found(cand[best].value, best, cand[best].conf)

\* The scan stopping at its first candidate, whatever the later ones score
FirstCandidate(cand) ==
    CandidateAt(cand, First({i \in DOMAIN cand : cand[i].conf > 0}))

\* The loop keeps a candidate only when its confidence is strictly above the
\* best so far: the earliest block of the highest confidence stays
BestCandidate(cand) ==
    CandidateAt(cand, First({i \in DOMAIN cand :
                               cand[i].conf > 0
                               /\ \A j \in DOMAIN cand : cand[j].conf <= cand[i].conf}))

HeuristicBest(blocks) ==
    BestCandidate([i \in Upto(blocks, HeuristicScanCap) |-> HeuristicCandidate(blocks, i)])

\* The arbitration turned round: the heuristic candidate before the two
\* strategies above it. The order of the arbitration tells it from Arbitrate.
HeuristicFirst(structured, demolition, heuristic) ==
    IF heuristic.found /\ heuristic.conf > 30 THEN heuristic
    ELSE IF demolition.found /\ demolition.conf >= 80 THEN demolition
    ELSE IF structured.found /\ structured.conf >= 90 THEN structured
    ELSE NotFound

\* lines 252-312: the first strategy whose result passes its threshold
Arbitrate(structured, demolition, heuristic) ==
    IF structured.found /\ structured.conf >= 90 THEN structured
    ELSE IF demolition.found /\ demolition.conf >= 80 THEN demolition
    ELSE IF heuristic.found /\ heuristic.conf > 30 THEN heuristic
    ELSE NotFound

\* pick_site_address
pick_site_address(blocks) ==
    Arbitrate(extract_site_address_from_section(blocks),
              extract_address_from_demolition_pattern(blocks),
              HeuristicBest(blocks))

\* ------------------------------------------------------------------------
\* Proposed use, document type, label fallback
\* ------------------------------------------------------------------------

ProposedUseScanCap == 80
MinProposalLen == 20
LongProposalLen == 30

\* lines 318-322: the test a block's normalized text passes
IsProposal(t) ==
    /\ t # "" /\ ~is_noise(t)
    /\ ProposalHint(t)
    /\ Len(t) >= MinProposalLen
    /\ (looks_like_allcaps(t) \/ EndsWith(t, "."))

ProposalFound(t, i) == Found(t, i, IF Len(t) >= LongProposalLen THEN 70 ELSE 50)

ProposalAt(blocks, i) ==
    IF i = 0 THEN NotFound ELSE ProposalFound(norm(ContentOf(blocks[i])), i)

\* pick_proposed_use
pick_proposed_use(blocks) ==
    ProposalAt(blocks, First({j \in Upto(blocks, ProposedUseScanCap) :
                                IsProposal(norm(ContentOf(blocks[j])))}))

ClassifyCap == 200

\* " ".join(_norm(...) for b in text_blocks[:200])
RECURSIVE JoinNorm(_, _, _)
JoinNorm(blocks, i, last) ==
    IF i > last THEN ""
    ELSE IF i = last THEN norm(ContentOf(blocks[i]))
    ELSE JoinNorm(blocks, i, (i + last) \div 2) \o " "
            \o JoinNorm(blocks, ((i + last) \div 2) + 1, last)

\* sum(1 for h in hints if re.search(h, text))
Score(text, hints) == Cardinality({k \in DOMAIN hints : HintMatches(text, hints[k])})

priority_order ==
    << "application_form", "site_notice", "site_plan", "design_statement", "heritage",
       "drawing" >>

\* The comparison of line 341 made weak: a type replaces the best so far with
\* an equal score as well, so a type wins with no hint matched.
BetterOrEqual(best, dtype, scores) ==
    IF dtype \in DOMAIN scores /\ scores[dtype] >= best.score
    THEN [dtype |-> dtype, score |-> scores[dtype]] ELSE best

\* line 341: a type replaces the best so far only with a strictly higher score
Better(best, dtype, scores) ==
    IF dtype \in DOMAIN scores /\ scores[dtype] > best.score
    THEN [dtype |-> dtype, score |-> scores[dtype]] ELSE best

\* The loop over the types in order
RECURSIVE BestType(_, _, _)
BestType(scores, order, best) ==
    IF order = << >> THEN best
    ELSE BestType(scores, Tail(order), Better(best, Head(order), scores))

\* lines 345-350: the types outside priority_order (there are none) are tried
\* only when every type of the order scored zero
OtherTypes(scores, others, best) ==
    IF best.score = 0 /\ \E d \in others : scores[d] > 0
    THEN CHOOSE d \in others : scores[d] > 0 /\ \A e \in others : scores[e] <= scores[d]
    ELSE best.dtype

ClassifyScores(scores) ==
    OtherTypes(scores, DOMAIN scores \ {priority_order[k] : k \in DOMAIN priority_order},
               BestType(scores, priority_order, [dtype |-> "unknown", score |-> 0]))

ClassifyText(text) ==
    ClassifyScores([d \in DOMAIN DOC_TYPE_HINTS |-> Score(text, DOC_TYPE_HINTS[d])])

\* classify_document without the [:200] of line 329: every block is joined
classify_every_block(text_blocks) ==
    ClassifyText(ToLower(JoinNorm(text_blocks, 1, Len(text_blocks))))

\* classify_document
classify_document(text_blocks) ==
    ClassifyText(ToLower(JoinNorm(text_blocks, 1, Min(ClassifyCap, Len(text_blocks)))))

LabelNextBlocks == 3
LabelEnoughLen == 20

\* " ".join of two texts, either of which may be empty
JoinSpace(joined, txt) ==
    IF txt = "" THEN joined ELSE IF joined = "" THEN txt ELSE joined \o " " \o txt

\* The loop over j = 1..3 (lines 367-374): the non-empty texts of the next
\* blocks joined with " ", stopping once the joined text is longer than 20
RECURSIVE NextTexts(_, _, _, _)
RECURSIVE NextTextsOn(_, _, _, _)
\* The loop without the break of lines 373-374: all three blocks are joined
NextTextsAll(text_blocks, i, j, now) == NextTexts(text_blocks, i, j + 1, now)

NextTextsOn(text_blocks, i, j, now) ==
    IF Len(now) > LabelEnoughLen THEN now ELSE NextTexts(text_blocks, i, j + 1, now)

NextTexts(text_blocks, i, j, joined) ==
    IF j > LabelNextBlocks THEN joined
    ELSE NextTextsOn(text_blocks, i, j,
                     JoinSpace(joined, IF i + j <= Len(text_blocks)
                                       THEN norm(ContentOf(text_blocks[i + j])) ELSE ""))

\* lines 362-376: the text after the ":" if there is any, else the next blocks'
LabelValueOf(text_blocks, i, after) ==
    IF after # "" THEN after ELSE NormStr(NextTexts(text_blocks, i, 1, ""))

LabelValueIn(text_blocks, i, t, label_patterns) ==
    IF ~ContainsAny(ToLower(t), label_patterns) THEN ""
    ELSE LabelValueOf(text_blocks, i, NormStr(Second(SplitOnce(t, {":"}))))

\* The value the loop body (lines 359-376) returns at the block at position i,
\* "" when it goes on to the next block
LabelValueAt(text_blocks, i, label_patterns) ==
    LabelValueIn(text_blocks, i, norm(ContentOf(text_blocks[i])), label_patterns)

\* extract_by_label; the caller adds the confidence
extract_by_label(text_blocks, label_patterns) ==
    FirstValue([j \in 1..Len(text_blocks) |-> LabelValueAt(text_blocks, j, label_patterns)], 70)


\* ------------------------------------------------------------------------
\* State
\* ------------------------------------------------------------------------

VARIABLES
    caller,      \* "direct": map_fields is called on a layout whose blocks the
                 \* caller indexed; "pipeline": extract_from_pdf_bytes
    pdf,         \* pipeline: the recognized blocks of the document to analyze
    layout,      \* the layout mapping handed to map_fields (its blocks are
                 \* the objects extract_from_pdf_bytes writes the index to)
    pc,          \* the statement the run is at
    blocks,      \* map_fields: blocks
    fields,      \* map_fields: fields
    evidence,    \* map_fields: evidence
    label_i,     \* map_fields: the position in LABEL_PATTERNS of the label loop
    result,      \* what the call returned
    error,       \* the exception that ended the run, "" if none
    run,         \* the number of the map_fields invocation on this layout
    prev,        \* what the invocation before this one returned
    evidence_index,  \* extract_from_pdf_bytes: evidence_index
    validation,  \* should_trigger_llm: the validation result handed over
    extraction,  \* should_trigger_llm: the extraction result handed over
    resolved_fields,  \* should_trigger_llm: the fields resolved earlier
    triggered,   \* what should_trigger_llm returned
    db,          \* resolve_with_llm: the committed rows of the store
    session,     \* resolve_with_llm: the database session and the objects it loaded
    resolution   \* resolve_with_llm: the arguments, the loop position, the reports

vars == << caller, pdf, layout, pc, blocks, fields, evidence, label_i, result, error,
           run, prev, evidence_index, validation, extraction, resolved_fields, triggered,
           db, session, resolution >>

\* The variables of the LLM gate, which the field mapper and the pipeline
\* entry point leave alone
gate_vars == << validation, extraction, resolved_fields, triggered, db, session, resolution >>

\* A dict as a function on its keys
EmptyDict == << >>
Has(d, key) == key \in DOMAIN d
Put(d, key, v) == [x \in DOMAIN d \cup {key} |-> IF x = key THEN v ELSE d[x]]

\* ev.setdefault(field, []).append(entry)
add_ev(ev, field, entry) ==
    Put(ev, field, (IF Has(ev, field) THEN ev[field] ELSE << >>) \o << entry >>)

NoResult == [returned |-> FALSE, fields |-> EmptyDict, evidence_index |-> EmptyDict]
Returned(fs, ev) == [returned |-> TRUE, fields |-> fs, evidence_index |-> ev]

ConfidenceKey(field) == field \o "_confidence"

\* int(b.get("page_number", b.get("page", 0))) raises TypeError on None
PageRaises(b) == PageOf(b).k = "none"

\* The write of a field that leaves the confidence entry out
WriteFieldNoConfidence(fs, ev, field, value, conf, b, snippet) ==
    [fields |-> Put(fs, field, value),
     evidence |-> add_ev(ev, field,
                         EvidenceEntry(PageOf(b).v, BlockId(PageOf(b).v, b), snippet, conf,
                                       fs["document_type"]))]

\* The write of a field whose evidence entry names no document type
WriteFieldUnknownType(fs, ev, field, value, conf, b, snippet) ==
    [fields |-> Put(Put(fs, field, value), ConfidenceKey(field), conf),
     evidence |-> add_ev(ev, field,
                         EvidenceEntry(PageOf(b).v, BlockId(PageOf(b).v, b), snippet, conf,
                                       "unknown"))]

\* A field is written: the value, its confidence, and one evidence entry that
\* cites the block b
WriteField(fs, ev, field, value, conf, b, snippet) ==
    LET page_num == PageOf(b).v
    IN  [fields |-> Put(Put(fs, field, value), ConfidenceKey(field), conf),
         evidence |-> add_ev(ev, field,
                             EvidenceEntry(page_num, BlockId(page_num, b), snippet, conf,
                                           fs["document_type"]))]

Raise(kind) ==
    /\ pc' = "raised"
    /\ error' = kind
    /\ UNCHANGED << caller, pdf, layout, blocks, fields, evidence, label_i, result, run, prev,
                    evidence_index >>
    /\ UNCHANGED gate_vars

\* The step wrote (or left) fields and evidence and goes to the statement
\* next, the label loop at position li
Step(next, fs, ev, li) ==
    /\ pc' = next
    /\ fields' = fs
    /\ evidence' = ev
    /\ label_i' = li
    /\ UNCHANGED << caller, pdf, layout, blocks, result, error, run, prev, evidence_index >>
    /\ UNCHANGED gate_vars

Goto(next, fs, ev) == Step(next, fs, ev, label_i)

StepWritten(next, w, li) == Step(next, w.fields, w.evidence, li)

\* The statements that write a field: int(page) raises on None, else the
\* value, its confidence and the evidence entry are written
WriteOrRaise(next, field, value, conf, b, snippet, li) ==
    IF PageRaises(b) THEN Raise("TypeError")
    ELSE StepWritten(next, WriteField(fields, evidence, field, value, conf, b, snippet), li)

\* The strategy's write citing the first block of the sequence whatever block
\* the strategy names: the evidence then points away from the source block.
StrategyWriteFirstBlock(next, field, r, li) ==
    IF Has(fields, field) \/ ~r.found THEN Step(next, fields, evidence, li)
    ELSE WriteOrRaise(next, field, r.value, r.conf, blocks[1], ContentOf(blocks[1]), li)

\* The strategy's write without the test of the field being set: a later
\* strategy then replaces the value of an earlier one.
StrategyOverwrite(next, field, r, li) ==
    IF ~r.found THEN Step(next, fields, evidence, li)
    ELSE WriteOrRaise(next, field, r.value, r.conf, blocks[r.src], ContentOf(blocks[r.src]), li)

\* A strategy's result r is written to a field that is not set yet, with the
\* content of the block the strategy names as its source
StrategyWrite(next, field, r, li) ==
    IF Has(fields, field) \/ ~r.found THEN Step(next, fields, evidence, li)
    ELSE WriteOrRaise(next, field, r.value, r.conf, blocks[r.src], ContentOf(blocks[r.src]), li)

\* ------------------------------------------------------------------------
\* map_fields (field_mapper.py lines 380-558), one action per stage
\* ------------------------------------------------------------------------

\* extracted_layout.get("text_blocks", []) or []
BlocksOf(extracted_layout) ==
    IF extracted_layout.text_blocks.k = "val" THEN extracted_layout.text_blocks.v ELSE << >>

\* The evidence of the invocation before kept, as a module-level mapping
\* would keep it: a second invocation then appends to the first one's entries.
KeptEvidence == evidence

\* evidence = {}
NewEvidence == EmptyDict

\* lines 390-396: the locals, and the document type
MapFieldsBegin ==
    /\ pc = "map_fields"
    /\ blocks' = BlocksOf(layout)
    /\ fields' = Put(EmptyDict, "document_type", classify_document(BlocksOf(layout)))
    /\ evidence' = NewEvidence
    /\ label_i' = 1
    /\ pc' = "app_ref"
    /\ UNCHANGED << caller, pdf, layout, result, error, run, prev, evidence_index >>
    /\ UNCHANGED gate_vars

AppRefScanCap == 400

AppRefWrite(b, t, ref) ==
    WriteOrRaise("site_address", "application_ref", ref,
                 IF Contains(ref, "PP-") THEN 90 ELSE 80, b, t, label_i)

\* The reference written as matched, without the .upper() of line 404
AppRefFromVerbatim(b, t) ==
    IF t.k = "none" THEN Raise("TypeError")
    ELSE AppRefWrite(b, t, Group(t.v, AppRefSearch(t.v)))

\* The block the loop stops at: APPREF_RE.search(None) raises TypeError
AppRefFrom(b, t) ==
    IF t.k = "none" THEN Raise("TypeError")
    ELSE AppRefWrite(b, t, UpperGroup(t.v, AppRefSearch(t.v)))

AppRefAt(stop) ==
    IF stop = 0 THEN Goto("site_address", fields, evidence)
    ELSE AppRefFrom(blocks[stop], ContentOf(blocks[stop]))

\* lines 400-415: the first block holding a reference, unless a block whose
\* content is None comes first
AppRef ==
    /\ pc = "app_ref"
    /\ AppRefAt(First({i \in Upto(blocks, AppRefScanCap) :
                         \/ ContentOf(blocks[i]).k = "none"
                         \/ AppRefSearch(ContentOf(blocks[i]).v).found}))

\* lines 418-425
SiteAddress ==
    /\ pc = "site_address"
    /\ StrategyWrite("prior_approval", "site_address", pick_site_address(blocks), label_i)

PriorApprovalScanCap == 100
MinPriorApprovalLen == 10

PriorApprovalMarkers == {"i/we hereby apply for prior approval", "prior approval for"}

\* lines 432-438 on a normalized text: the text after the first ":" or "for"
PriorApprovalIn(t) ==
    IF ContainsAny(ToLower(t), PriorApprovalMarkers)
    THEN LongerThan(NormStr(Second(SplitOnce(t, {":", "for"}))), MinPriorApprovalLen)
    ELSE ""

\* The text the loop body (lines 431-438) accepts at a block, "" if none
PriorApprovalText(b) == PriorApprovalIn(norm(ContentOf(b)))

PriorApprovalAt(i) ==
    IF Has(fields, "proposed_use") \/ i = 0 THEN Goto("proposed_use", fields, evidence)
    ELSE WriteOrRaise("proposed_use", "proposed_use", PriorApprovalText(blocks[i]), 90,
                      blocks[i], Val(norm(ContentOf(blocks[i]))), label_i)

\* lines 428-444: the prior-approval declaration
PriorApproval ==
    /\ pc = "prior_approval"
    /\ PriorApprovalAt(First({j \in Upto(blocks, PriorApprovalScanCap) :
                                PriorApprovalText(blocks[j]) # ""}))

\* lines 447-454: the heuristic fallback
ProposedUse ==
    /\ pc = "proposed_use"
    /\ StrategyWrite("labels", "proposed_use", pick_proposed_use(blocks), label_i)

\* lines 457-465: one turn of the loop over LABEL_PATTERNS
LabelFallback ==
    /\ pc = "labels"
    /\ StrategyWrite(IF label_i = Len(LabelFields) THEN "postcode" ELSE "labels",
                     LabelFields[label_i],
                     extract_by_label(blocks, LABEL_PATTERNS[LabelFields[label_i]]),
                     IF label_i = Len(LabelFields) THEN label_i ELSE label_i + 1)

RegexScanCap == 400

\* The context score without the penalty of lines 499-502
PostcodeContextNoPenalty(t, tl, in_site_section, postcode) ==
    IF in_site_section \/ Contains(tl, "postcode") THEN 90
    ELSE IF Contains(tl, "site") \/ Contains(tl, "address") THEN 70
    ELSE 50

\* lines 489-505: the context score of a candidate in the text t, tl its lower
\* case, and the PO-box penalty
PostcodeContext(t, tl, in_site_section, postcode) ==
    IF (is_council_contact(t) \/ Contains(tl, "po box")
          \/ Contains(tl, "birmingham city council"))
       /\ (StartsWith(postcode, "B1 1TU") \/ Contains(tl, "po box"))
    THEN 10
    ELSE IF in_site_section \/ Contains(tl, "postcode") THEN 90
    ELSE IF Contains(tl, "site") \/ Contains(tl, "address") THEN 70
    ELSE 50

PostcodeScore(blks, i, t, postcode) ==
    PostcodeContext(t, ToLower(t), is_in_site_location_section(blks, i), postcode)

\* lines 485-505: the confidence of the postcode candidate of the block at
\* position i, whose match upper-cased is postcode
PostcodeConfidence(blks, i, postcode) == PostcodeScore(blks, i, ContentOf(blks[i]).v, postcode)

\* lines 480-507: the candidates, by block position
PostcodeCandidates(blks) ==
    {i \in Upto(blks, RegexScanCap) : PostcodeSearch(ContentOf(blks[i]).v).found}

PostcodeOf(blks, i) == PostcodeIn(ContentOf(blks[i]).v)

\* The sort putting the latest candidate of the highest confidence at the head
LatestTopOf(conf) ==
    LET top == {i \in DOMAIN conf : \A j \in DOMAIN conf : conf[j] <= conf[i]}
    IN  IF top = {} THEN 0 ELSE CHOOSE i \in top : \A j \in top : j <= i

\* lines 512-513: the stable sort by confidence, highest first, puts the
\* earliest candidate of the highest confidence at the head
TopOf(conf) == First({i \in DOMAIN conf : \A j \in DOMAIN conf : conf[j] <= conf[i]})

TopPostcodeCandidate(blks) ==
    TopOf([i \in PostcodeCandidates(blks) |-> PostcodeConfidence(blks, i, PostcodeOf(blks, i))])

\* lines 516-521
PostcodeWrite(b, postcode, conf) ==
    IF Has(fields, "postcode") \/ conf < 30 THEN Goto("contact", fields, evidence)
    ELSE WriteOrRaise("contact", "postcode", postcode, conf, b, ContentOf(b), label_i)

PostcodeTop(top, postcode) ==
    PostcodeWrite(blocks[top], postcode, PostcodeConfidence(blocks, top, postcode))

PostcodeAt(top) ==
    IF top = 0 THEN Goto("contact", fields, evidence)
    ELSE PostcodeTop(top, PostcodeOf(blocks, top))

\* lines 468-521: POSTCODE_RE.search(None) raises TypeError at a block whose
\* content is None
Postcode ==
    /\ pc = "postcode"
    /\ IF \E i \in Upto(blocks, RegexScanCap) : ContentOf(blocks[i]).k = "none"
       THEN Raise("TypeError")
       ELSE PostcodeAt(TopPostcodeCandidate(blocks))

ContextWindow == 2
MinPhoneLen == 9

\* lines 535-537: 0.8 when "applicant" occurs within two blocks of position i
ContactConfidence(blks, i) ==
    IF Contains(ToLower(JoinNorm(blks, Max(1, i - ContextWindow),
                                 Min(Len(blks), i + ContextWindow))), "applicant")
    THEN 80 ELSE 50

\* The loop without the skip of lines 526-528: council-contact blocks give
\* matches as well
EveryScannedBlock(blks) == Upto(blks, RegexScanCap)

\* The blocks the loop (line 524) does not skip; a block whose content is None
\* has ended the run at the postcode scan
ContactBlocks(blks) ==
    {i \in Upto(blks, RegexScanCap) : ~is_council_contact(ContentOf(blks[i]).v)}

\* line 546 on the matched text g, n its normalized form
PhoneNorm(g, n) == IF looks_like_phone(g) /\ Len(n) >= MinPhoneLen THEN n ELSE ""

PhoneGroup(t, m) == IF m.found THEN PhoneNorm(Group(t, m), NormStr(Group(t, m))) ELSE ""

PhoneIn(t) == PhoneGroup(t, PhoneSearch(t))

\* line 546: the phone match the block at position i gives, "" if none
PhoneOf(blks, i) == PhoneIn(ContentOf(blks[i]).v)

\* lines 530-542: the email of the block at position e, if any
ContactEmail(e) ==
    IF e = 0 THEN [fields |-> fields, evidence |-> evidence]
    ELSE WriteField(fields, evidence, "applicant_email",
                    Group(ContentOf(blocks[e]).v, EmailSearch(ContentOf(blocks[e]).v)),
                    ContactConfidence(blocks, e), blocks[e], ContentOf(blocks[e]))

\* lines 544-555: the phone of the block at position p, if any
ContactPhone(w, p) ==
    IF p = 0 THEN w
    ELSE WriteField(w.fields, w.evidence, "applicant_phone", PhoneOf(blocks, p),
                    ContactConfidence(blocks, p), blocks[p], ContentOf(blocks[p]))

ContactWrite(e, p) ==
    IF (e # 0 /\ PageRaises(blocks[e])) \/ (p # 0 /\ PageRaises(blocks[p]))
    THEN Raise("TypeError")
    ELSE StepWritten("return", ContactPhone(ContactEmail(e), p), label_i)

\* lines 524-555: each of the two fields is taken at the first block that gives
\* it
Contact ==
    /\ pc = "contact"
    /\ ContactWrite(IF Has(fields, "applicant_email") THEN 0
                    ELSE First({i \in ContactBlocks(blocks) :
                                  EmailSearch(ContentOf(blocks[i]).v).found}),
                    IF Has(fields, "applicant_phone") THEN 0
                    ELSE First({i \in ContactBlocks(blocks) : PhoneOf(blocks, i) # ""}))

\* The return of a map_fields that consumed the caller's list while scanning
\* it (blocks popped off text_blocks), instead of only reading it
MapFieldsReturnDrained ==
    /\ pc = "return"
    /\ result' = Returned(fields, evidence)
    /\ layout' = [text_blocks |-> Val(<< >>)]
    /\ pc' = IF caller = "pipeline" THEN "index_blocks" ELSE "done"
    /\ UNCHANGED << caller, pdf, blocks, fields, evidence, label_i, error, run, prev,
                    evidence_index >>
    /\ UNCHANGED gate_vars

\* line 558, back in the caller
MapFieldsReturn ==
    /\ pc = "return"
    /\ result' = Returned(fields, evidence)
    /\ pc' = IF caller = "pipeline" THEN "index_blocks" ELSE "done"
    /\ UNCHANGED << caller, pdf, layout, blocks, fields, evidence, label_i, error, run, prev,
                    evidence_index >>
    /\ UNCHANGED gate_vars

\* A second invocation of map_fields on the same layout
MaxRuns == 2

Reinvoke ==
    /\ pc = "done"
    /\ caller = "direct"
    /\ run < MaxRuns
    /\ run' = run + 1
    /\ prev' = result
    /\ result' = NoResult
    /\ pc' = "map_fields"
    /\ UNCHANGED << caller, pdf, layout, blocks, fields, evidence, label_i, error,
                    evidence_index >>
    /\ UNCHANGED gate_vars

\* ------------------------------------------------------------------------
\* extract_from_pdf_bytes (extract.py lines 155-240)
\* ------------------------------------------------------------------------

\* A block as layout analysis hands it over: content and page number
Recognized(content, page_number) ==
    [content |-> Val(content), text |-> Absent(""), page_number |-> Val(page_number),
     page |-> Absent(0), index |-> Absent(0)]

\* docintel.analyze_document: the layout of the recognized blocks, which
\* carry no index
analyze_document(recognized) == [text_blocks |-> Val(recognized)]

\* lines 177-182: the analysis, then the call of map_fields
Analyze ==
    /\ pc = "analyze"
    /\ layout' = analyze_document(pdf)
    /\ pc' = "map_fields"
    /\ UNCHANGED << caller, pdf, blocks, fields, evidence, label_i, result, error, run,
                    prev, evidence_index >>
    /\ UNCHANGED gate_vars

GeneralSnippetCap == 100

\* lines 191-203: the general evidence of a block (the bounding box, which no
\* field is derived from, is left out)
TextBlockEvidence(block) ==
    LET content == Get(block.content, Val("")).v
    IN  [type |-> "text_block",
         content |-> content,
         snippet |-> IF Len(content) > GeneralSnippetCap
                     THEN SubSeq(content, 1, GeneralSnippetCap) \o "..." ELSE content,
         page_number |-> Get(block.page_number, None(0))]

\* f"text_block_{i}" for the block at position i
TextBlockKey(i) == "text_block_" \o IntStr(i - 1)

\* lines 187-206: the general evidence of every block, and block["index"] = i
\* written to the blocks of the layout (the layouts here hold no tables, so
\* the loop of lines 209-227 adds nothing)
IndexBlocks ==
    /\ pc = "index_blocks"
    /\ LET text_blocks == BlocksOf(layout)
       IN  /\ evidence_index' =
                 [key \in {TextBlockKey(i) : i \in DOMAIN text_blocks} |->
                    LET i == CHOOSE j \in DOMAIN text_blocks : TextBlockKey(j) = key
                    IN  TextBlockEvidence(text_blocks[i])]
           /\ layout' = [layout EXCEPT !.text_blocks =
                           Val([i \in DOMAIN text_blocks |->
                                  [text_blocks[i] EXCEPT !.index = Val(i - 1)]])]
    /\ pc' = "merge"
    /\ UNCHANGED << caller, pdf, blocks, fields, evidence, label_i, result, error, run, prev >>
    /\ UNCHANGED gate_vars

\* lines 229-240: the field evidence goes over the general evidence, and the
\* result is returned
PipelineReturn ==
    /\ pc = "merge"
    /\ result' = Returned(result.fields,
                          [key \in DOMAIN evidence_index \cup DOMAIN result.evidence_index |->
                             IF key \in DOMAIN result.evidence_index
                             THEN result.evidence_index[key] ELSE evidence_index[key]])
    /\ pc' = "done"
    /\ UNCHANGED << caller, pdf, layout, blocks, fields, evidence, label_i, error, run, prev,
                    evidence_index >>
    /\ UNCHANGED gate_vars

\* ------------------------------------------------------------------------
\* should_trigger_llm (llm_gate.py lines 223-286)
\* ------------------------------------------------------------------------

\* DOC_FIELD_OWNERSHIP: the fields a document type can provide
DOC_FIELD_OWNERSHIP ==
    [application_form |->
        {"application_ref", "site_address", "proposed_use", "applicant_name", "agent_name"},
     site_plan |-> {"site_address", "proposed_use"},
     drawing |-> {"proposed_use"},
     design_statement |-> {"proposed_use", "site_address"},
     unknown |-> {"site_address", "proposed_use"}]

\* The ownership test dropped: every document type is taken to own the
\* fields of the application form
OwnsEveryField(doc_type) == DOC_FIELD_OWNERSHIP["application_form"]

\* DOC_FIELD_OWNERSHIP.get(doc_type, set())
AllowedFields(doc_type) ==
    IF doc_type \in DOMAIN DOC_FIELD_OWNERSHIP THEN DOC_FIELD_OWNERSHIP[doc_type] ELSE {}

\* validation.get("summary", {}).get("needs_llm") as a truth value
NeedsLlm(v) ==
    /\ v.summary.k = "val"
    /\ v.summary.v.needs_llm.k = "val"
    /\ v.summary.v.needs_llm.v

\* extraction.get("fields", {}).get("document_type", "unknown")
DocTypeOf(e) ==
    IF e.fields.k = "val" /\ e.fields.v.document_type.k # "absent"
    THEN e.fields.v.document_type.v ELSE "unknown"

\* resolved_fields or {}, as the set of its keys
ResolvedKeys(resolved) == IF resolved.k = "val" THEN resolved.v ELSE {}

\* lines 261-264: the finding counts when its severity is "error" and its
\* status needs_review or fail
Blocking(finding) ==
    /\ finding.severity = "error"
    /\ finding.status \in {"needs_review", "fail"}

\* [f for f in missing if f not in resolved_fields]
RECURSIVE Unresolved(_, _)
Unresolved(missing, resolved) ==
    IF missing = << >> THEN << >>
    ELSE (IF Head(missing) \in resolved THEN << >> ELSE << Head(missing) >>)
            \o Unresolved(Tail(missing), resolved)

\* lines 256-269: missing_fields after the loop over the findings
RECURSIVE MissingFields(_, _)
MissingFields(findings, resolved) ==
    IF findings = << >> THEN << >>
    ELSE (IF Blocking(Head(findings))
          THEN Unresolved(Get(Head(findings).missing_fields, Val(<< >>)).v, resolved)
          ELSE << >>)
            \o MissingFields(Tail(findings), resolved)

\* line 276: [f for f in missing_fields if f in allowed_fields]
MissingAllowed(missing_fields, allowed_fields) ==
    SelectSeq(missing_fields, LAMBDA f : f \in allowed_fields)

MinTextBlocks == 5

\* lines 271-286, the flag being set: the chain of early returns
TriggerOn(missing_fields, allowed_fields, text_blocks) ==
    IF missing_fields = << >> THEN FALSE
    ELSE IF MissingAllowed(missing_fields, allowed_fields) = << >> THEN FALSE
    ELSE IF Len(text_blocks) < MinTextBlocks THEN FALSE
    ELSE TRUE

\* should_trigger_llm
should_trigger_llm(v, e, resolved) ==
    IF ~NeedsLlm(v) THEN FALSE
    ELSE TriggerOn(MissingFields(Get(v.findings, Val(<< >>)).v, ResolvedKeys(resolved)),
                   AllowedFields(DocTypeOf(e)),
                   Get(e.text_blocks, Val(<< >>)).v)

\* The call of should_trigger_llm on the inputs handed over
ShouldTriggerLlm ==
    /\ pc = "should_trigger_llm"
    /\ triggered' = Val(should_trigger_llm(validation, extraction, resolved_fields))
    /\ pc' = "gated"
    /\ UNCHANGED << caller, pdf, layout, blocks, fields, evidence, label_i, result, error,
                    run, prev, evidence_index, validation, extraction, resolved_fields >>
    /\ UNCHANGED << db, session, resolution >>

\* ------------------------------------------------------------------------
\* resolve_with_llm (llm_gate.py lines 14-154)
\* ------------------------------------------------------------------------

\* min_confidence_threshold: float = 0.7
MinConfidenceThreshold == 70

\* A ValidationResult row: confidence and extracted_value may be None
ValidationRow(field_name, status, confidence, extracted_value) ==
    [field_name |-> field_name, status |-> status, confidence |-> confidence,
     extracted_value |-> extracted_value, llm_resolution |-> None("")]

\* lines 54-66: the rows of the document with status FAIL, NEEDS_REVIEW or
\* PENDING, of the field asked for when one is named, as positions of the store
SelectedRows(rows, field_name) ==
    {j \in DOMAIN rows :
        /\ rows[j].status \in {"fail", "needs_review", "pending"}
        /\ (field_name.k = "val" /\ field_name.v # "") => rows[j].field_name = field_name.v}

\* A set of positions as the ascending sequence
Ascending(S) ==
    [k \in 1..Cardinality(S) |-> CHOOSE j \in S : Cardinality({x \in S : x < j}) = k - 1]

\* lines 83-87
needs_resolution(vr) ==
    \/ vr.status = "fail"
    \/ vr.status = "needs_review"
    \/ (vr.confidence.k = "val" /\ vr.confidence.v < MinConfidenceThreshold)

\* line 96: the value is missing or the validation failed
MissingOrFailed(vr) == vr.extracted_value.k = "none" \/ vr.status = "fail"

\* d.get(key) is truthy
Truthy(e) == e.k = "val" /\ e.v # ""

\* lines 106-118: the row after resolve_field_conflict answered r
Resolved(vr, r) ==
    [vr EXCEPT
        !.extracted_value = IF Truthy(r.resolved_value) THEN r.resolved_value ELSE @,
        !.confidence = Get(r.confidence, @),
        !.llm_resolution = Get(r.reasoning, Val("")),
        !.status = IF Truthy(r.resolved_value)
                   THEN IF Get(r.confidence, Val(0)).v >= MinConfidenceThreshold
                        THEN "pass" ELSE "needs_review"
                   ELSE "fail"]

\* llm_validation.get("is_valid") is truthy
IsValid(r) == r.is_valid.k = "val" /\ r.is_valid.v

\* lines 131-139: the row after validate_with_llm answered r
Validated(vr, r) ==
    [vr EXCEPT
        !.confidence = Get(r.confidence, @),
        !.llm_resolution = Get(r.reasoning, Val("")),
        !.status = IF IsValid(r) THEN "pass" ELSE "needs_review",
        !.extracted_value = IF ~IsValid(r) /\ Truthy(r.suggested_value)
                            THEN r.suggested_value ELSE @]

\* lines 141-147
ReportOf(vr) ==
    [field_name |-> vr.field_name, status |-> vr.status, confidence |-> vr.confidence,
     resolved_value |-> vr.extracted_value, reasoning |-> vr.llm_resolution]

\* What resolve_field_conflict answers: nothing resolved, a value of high
\* confidence, of low confidence, and one without a confidence
ConflictAnswers ==
    {[resolved_value |-> None(""), confidence |-> Absent(0), reasoning |-> Val("no value")],
     [resolved_value |-> Val("resolved"), confidence |-> Val(90), reasoning |-> Val("found")],
     [resolved_value |-> Val("resolved"), confidence |-> Val(50), reasoning |-> Val("guess")],
     [resolved_value |-> Val("resolved"), confidence |-> Absent(0), reasoning |-> Absent("")]}

\* What validate_with_llm answers: valid, invalid with a suggestion, invalid
\* without one
ValidationAnswers ==
    {[is_valid |-> Val(TRUE), confidence |-> Val(90), suggested_value |-> Absent(""),
      reasoning |-> Val("valid")],
     [is_valid |-> Val(FALSE), confidence |-> Absent(0), suggested_value |-> Val("suggested"),
      reasoning |-> Val("invalid")],
     [is_valid |-> Val(FALSE), confidence |-> Val(40), suggested_value |-> Absent(""),
      reasoning |-> Absent("")]}

\* The assignment written through to the store at once
UpdateAndCommit(sess, store, j, vr) ==
    [session |-> [sess EXCEPT !.objects[j] = vr, !.commits = @ + 1],
     db |-> [store EXCEPT !.rows[j] = vr]]

\* The assignments to vr change the object the session holds; the store keeps
\* its row until the session commits
UpdateObject(sess, store, j, vr) ==
    [session |-> [sess EXCEPT !.objects[j] = vr], db |-> store]

\* The variables resolve_with_llm leaves alone
outside_resolve ==
    << caller, pdf, layout, blocks, fields, evidence, label_i, result, run, prev,
       evidence_index, validation, extraction, resolved_fields, triggered >>

\* The exception leaves the try block for the finally clause
ResolveRaise(kind) ==
    /\ error' = kind
    /\ pc' = "finally"

\* line 46: session = db.get_session()
GetSession ==
    /\ pc = "resolve_with_llm"
    /\ session' = [session EXCEPT !.open = TRUE]
    /\ pc' = "get_document"
    /\ UNCHANGED << db, resolution, error >>
    /\ UNCHANGED outside_resolve

\* lines 49-51
GetDocument ==
    /\ pc = "get_document"
    /\ IF db.document THEN pc' = "query" /\ error' = error ELSE ResolveRaise("ValueError")
    /\ UNCHANGED << db, session, resolution >>
    /\ UNCHANGED outside_resolve

\* lines 54-69: the rows are loaded into the session; return [] when none is
\* selected
QueryResults ==
    /\ pc = "query"
    /\ session' = [session EXCEPT !.objects = db.rows]
    /\ LET selected == Ascending(SelectedRows(db.rows, resolution.field_name))
       IN  IF selected = << >>
           THEN /\ resolution' = [resolution EXCEPT !.returned = Val(<< >>)]
                /\ pc' = "finally"
           ELSE /\ resolution' = [resolution EXCEPT !.selected = selected]
                /\ pc' = "get_extraction"
    /\ UNCHANGED << db, error >>
    /\ UNCHANGED outside_resolve

\* lines 72-79
GetExtraction ==
    /\ pc = "get_extraction"
    /\ IF db.extraction
       THEN pc' = "loop" /\ error' = error /\ resolution' = [resolution EXCEPT !.i = 1]
       ELSE ResolveRaise("ValueError") /\ resolution' = resolution
    /\ UNCHANGED << db, session >>
    /\ UNCHANGED outside_resolve

\* The loop is at a row
AtRow ==
    /\ pc = "loop"
    /\ resolution.i <= Len(resolution.selected)

\* The row the loop is at, as the session holds it
CurrentRow == session.objects[resolution.selected[resolution.i]]

\* lines 89-90: continue
SkipRow ==
    /\ AtRow
    /\ ~needs_resolution(CurrentRow)
    /\ resolution' = [resolution EXCEPT !.i = @ + 1]
    /\ UNCHANGED << db, session, pc, error >>
    /\ UNCHANGED outside_resolve

\* The row is updated and reported, and the loop goes on
RowDone(vr) ==
    LET after == UpdateObject(session, db, resolution.selected[resolution.i], vr)
    IN  /\ session' = after.session
        /\ db' = after.db
        /\ resolution' = [resolution EXCEPT !.i = @ + 1,
                                            !.results = Append(@, ReportOf(vr))]
        /\ UNCHANGED << pc, error >>
        /\ UNCHANGED outside_resolve

\* lines 96-118
ResolveFieldConflict ==
    /\ AtRow
    /\ needs_resolution(CurrentRow)
    /\ MissingOrFailed(CurrentRow)
    /\ \E r \in ConflictAnswers : RowDone(Resolved(CurrentRow, r))

\* lines 120-139
ValidateWithLlm ==
    /\ AtRow
    /\ needs_resolution(CurrentRow)
    /\ ~MissingOrFailed(CurrentRow)
    /\ \E r \in ValidationAnswers : RowDone(Validated(CurrentRow, r))

\* The call of the client raises
LlmRaises ==
    /\ AtRow
    /\ needs_resolution(CurrentRow)
    /\ ResolveRaise("LlmError")
    /\ UNCHANGED << db, session, resolution >>
    /\ UNCHANGED outside_resolve

\* lines 149-150: session.commit() writes the objects to the store, and the
\* reports are returned
Commit ==
    /\ pc = "loop"
    /\ resolution.i > Len(resolution.selected)
    /\ db' = [db EXCEPT !.rows = session.objects]
    /\ session' = [session EXCEPT !.commits = @ + 1]
    /\ resolution' = [resolution EXCEPT !.returned = Val(resolution.results)]
    /\ pc' = "finally"
    /\ UNCHANGED error
    /\ UNCHANGED outside_resolve

\* lines 152-153: session.close()
CloseSession ==
    /\ pc = "finally"
    /\ session' = [session EXCEPT !.open = FALSE, !.closes = @ + 1]
    /\ pc' = IF error = "" THEN "done" ELSE "raised"
    /\ UNCHANGED << db, resolution, error >>
    /\ UNCHANGED outside_resolve

\* No call of resolve_with_llm
ResolveIdle ==
    /\ db = [document |-> FALSE, extraction |-> FALSE, rows |-> << >>]
    /\ session = [open |-> FALSE, objects |-> << >>, commits |-> 0, closes |-> 0]
    /\ resolution = [field_name |-> None(""), selected |-> << >>, i |-> 0,
                     results |-> << >>, returned |-> None(<< >>)]

\* No call of the gate: its variables hold nothing
GateIdle ==
    /\ validation = [summary |-> Absent(<< >>), findings |-> Absent(<< >>)]
    /\ extraction = [fields |-> Absent(<< >>), text_blocks |-> Absent(<< >>)]
    /\ resolved_fields = None({})
    /\ triggered = None(FALSE)
    /\ ResolveIdle

\* ------------------------------------------------------------------------
\* Inputs
\* ------------------------------------------------------------------------

\* The longest block sequence
MaxBlocks == 3

\* Two blocks to a page
PageAt(i) == 1 + ((i - 1) \div 2)

\* The block sequences of at most MaxBlocks blocks over the texts
Docs(texts) == UNION {[1..n -> texts] : n \in 0..MaxBlocks}

RecognizedBlocks(d) == [i \in DOMAIN d |-> Recognized(d[i], PageAt(i))]

\* The blocks as a caller of map_fields hands them over: indexed from 0
Indexed(d) == [i \in DOMAIN d |-> [Recognized(d[i], PageAt(i)) EXCEPT !.index = Val(i - 1)]]

\* Malformed blocks: the first block of the sequence lacks a key, names it
\* the other way, or holds None
MalformedKinds ==
    {"no_index", "no_page", "no_content", "text_key", "page_key", "none_content",
     "none_page", "none_index"}

Malformed(b, kind) ==
    CASE kind = "no_index" -> [b EXCEPT !.index = Absent(0)]
      [] kind = "no_page" -> [b EXCEPT !.page_number = Absent(0)]
      [] kind = "no_content" -> [b EXCEPT !.content = Absent("")]
      [] kind = "text_key" -> [b EXCEPT !.content = Absent(""), !.text = b.content]
      [] kind = "page_key" -> [b EXCEPT !.page_number = Absent(0), !.page = b.page_number]
      [] kind = "none_content" -> [b EXCEPT !.content = None("")]
      [] kind = "none_page" -> [b EXCEPT !.page_number = None(0)]
      [] kind = "none_index" -> [b EXCEPT !.index = None(0)]

\* The longest malformed sequence
MaxMalformedBlocks == 2

DirectLayouts(texts) ==
    {[text_blocks |-> Val(Indexed(d))] : d \in Docs(texts)}
    \cup {[text_blocks |-> Val([Indexed(d) EXCEPT ![1] = Malformed(Indexed(d)[1], kind)])] :
            d \in {e \in Docs(texts) : Len(e) >= 1 /\ Len(e) <= MaxMalformedBlocks},
            kind \in MalformedKinds}
    \cup {[text_blocks |-> Absent(<< >>)], [text_blocks |-> None(<< >>)]}

InitWith(texts) ==
    /\ caller \in {"direct", "pipeline"}
    /\ IF caller = "direct"
       THEN /\ pdf = << >>
            /\ layout \in DirectLayouts(texts)
            /\ pc = "map_fields"
       ELSE /\ pdf \in {RecognizedBlocks(d) : d \in Docs(texts)}
            /\ layout = [text_blocks |-> Absent(<< >>)]
            /\ pc = "analyze"
    /\ blocks = << >>
    /\ fields = EmptyDict
    /\ evidence = EmptyDict
    /\ label_i = 1
    /\ result = NoResult
    /\ error = ""
    /\ run = 1
    /\ prev = NoResult
    /\ evidence_index = EmptyDict
    /\ GateIdle

Next ==
    \/ Analyze
    \/ MapFieldsBegin
    \/ AppRef
    \/ SiteAddress
    \/ PriorApproval
    \/ ProposedUse
    \/ LabelFallback
    \/ Postcode
    \/ Contact
    \/ MapFieldsReturn
    \/ Reinvoke
    \/ IndexBlocks
    \/ PipelineReturn

\* The most findings of a validation result
MaxFindings == 2

\* The missing-field lists of a finding: none, a field every listed type but
\* the drawing owns, and one only the application form owns before it
MissingLists ==
    {Absent(<< >>), Val(<< "site_address" >>), Val(<< "applicant_name", "site_address" >>)}

Findings ==
    [severity : {"error", "warning"},
     status : {"pass", "needs_review", "fail"},
     missing_fields : MissingLists]

FindingLists == UNION {[1..n -> Findings] : n \in 0..MaxFindings}

Summaries ==
    {Absent(<< >>), Val([needs_llm |-> Absent(FALSE)]), Val([needs_llm |-> Val(FALSE)]),
     Val([needs_llm |-> Val(TRUE)])}

Validations == [summary : Summaries, findings : {Val(fs) : fs \in FindingLists}]

\* The document types of an extraction: one that owns five fields, one that
\* owns one, one without an ownership entry, and none
GateDocTypes == {Val("application_form"), Val("drawing"), Val("site_notice"), Absent("")}

\* Extractions of one block less than the gate asks for, and of just as many
Extractions ==
    [fields : {Val([document_type |-> d]) : d \in GateDocTypes},
     text_blocks : {Val([i \in 1..n |-> Recognized("Site notice", PageAt(i))]) :
                      n \in {MinTextBlocks - 1, MinTextBlocks}}]

ResolvedFields == {None({}), Val({}), Val({"site_address"})}

\* should_trigger_llm called on a validation result, an extraction and the
\* fields resolved earlier
InitGate ==
    /\ caller = "gate"
    /\ pdf = << >>
    /\ layout = [text_blocks |-> Absent(<< >>)]
    /\ pc = "should_trigger_llm"
    /\ blocks = << >>
    /\ fields = EmptyDict
    /\ evidence = EmptyDict
    /\ label_i = 1
    /\ result = NoResult
    /\ error = ""
    /\ run = 1
    /\ prev = NoResult
    /\ evidence_index = EmptyDict
    /\ validation \in Validations
    /\ extraction \in Extractions
    /\ resolved_fields \in ResolvedFields
    /\ triggered = None(FALSE)
    /\ ResolveIdle

NextGate == ShouldTriggerLlm

\* The rows of the store: a failed row without a value, a row to review, rows
\* pending without a confidence, at the threshold and below it, with a value
\* and without, and a row that passed
MaxRows == 2

RowKinds ==
    {ValidationRow("site_address", "fail", None(0), None("")),
     ValidationRow("proposed_use", "needs_review", Val(60), Val("C3")),
     ValidationRow("application_ref", "pending", None(0), Val("PP-12345678")),
     ValidationRow("site_address", "pending", Val(MinConfidenceThreshold), Val("1 High Street")),
     ValidationRow("proposed_use", "pending", Val(50), Val("C3")),
     ValidationRow("site_address", "pending", Val(50), None("")),
     ValidationRow("application_ref", "pass", Val(90), Val("PP-12345678"))}

Stores ==
    [document : BOOLEAN, extraction : BOOLEAN,
     rows : UNION {[1..n -> RowKinds] : n \in 0..MaxRows}]

InitResolve ==
    /\ caller = "resolve"
    /\ pdf = << >>
    /\ layout = [text_blocks |-> Absent(<< >>)]
    /\ pc = "resolve_with_llm"
    /\ blocks = << >>
    /\ fields = EmptyDict
    /\ evidence = EmptyDict
    /\ label_i = 1
    /\ result = NoResult
    /\ error = ""
    /\ run = 1
    /\ prev = NoResult
    /\ evidence_index = EmptyDict
    /\ validation = [summary |-> Absent(<< >>), findings |-> Absent(<< >>)]
    /\ extraction = [fields |-> Absent(<< >>), text_blocks |-> Absent(<< >>)]
    /\ resolved_fields = None({})
    /\ triggered = None(FALSE)
    /\ db \in Stores
    /\ session = [open |-> FALSE, objects |-> << >>, commits |-> 0, closes |-> 0]
    /\ resolution \in
          {[field_name |-> f, selected |-> << >>, i |-> 0, results |-> << >>,
            returned |-> None(<< >>)] : f \in {None(""), Val("site_address")}}

NextResolve ==
    \/ GetSession
    \/ GetDocument
    \/ QueryResults
    \/ GetExtraction
    \/ SkipRow
    \/ ResolveFieldConflict
    \/ ValidateWithLlm
    \/ LlmRaises
    \/ Commit
    \/ CloseSession

SpecResolve == InitResolve /\ [][NextResolve]_vars

SpecGate == InitGate /\ [][NextGate]_vars

\* The prefix the scans of map_fields are capped to: the first 400 blocks and
\* the context window after the last of them
CappedPrefix == RegexScanCap + ContextWindow

\* The most blocks after the capped prefix
MaxTail == 2

FillerText == "Sheet"

\* The texts of the blocks after the capped prefix: two labelled values and an
\* application reference
TailTexts == {"Applicant Name: John Smith", "Site Address: 1 High Street", "PP-12345678"}

Tails == UNION {[1..n -> TailTexts] : n \in 0..MaxTail}

\* A sequence of filler blocks as long as the capped prefix, and a tail
LongDoc(tail) == [i \in 1..CappedPrefix |-> FillerText] \o tail

\* The caller invokes map_fields again on the sequence cut to its capped
\* prefix: the two sequences agree on the prefix and differ only after it
ReinvokeOnPrefix ==
    /\ pc = "done"
    /\ run < MaxRuns
    /\ run' = run + 1
    /\ prev' = result
    /\ result' = NoResult
    /\ layout' = [text_blocks |-> Val(SubSeq(BlocksOf(layout), 1, CappedPrefix))]
    /\ pc' = "map_fields"
    /\ UNCHANGED << caller, pdf, blocks, fields, evidence, label_i, error, evidence_index >>
    /\ UNCHANGED gate_vars

\* map_fields invoked on one of the block sequences docs
InitLong(docs) ==
    /\ caller = "direct"
    /\ pdf = << >>
    /\ layout \in {[text_blocks |-> Val(Indexed(d))] : d \in docs}
    /\ pc = "map_fields"
    /\ blocks = << >>
    /\ fields = EmptyDict
    /\ evidence = EmptyDict
    /\ label_i = 1
    /\ result = NoResult
    /\ error = ""
    /\ run = 1
    /\ prev = NoResult
    /\ evidence_index = EmptyDict
    /\ GateIdle

\* The statements of one invocation of map_fields
NextMapFields ==
    \/ MapFieldsBegin
    \/ AppRef
    \/ SiteAddress
    \/ PriorApproval
    \/ ProposedUse
    \/ LabelFallback
    \/ Postcode
    \/ Contact
    \/ MapFieldsReturn

InitPrefix == InitLong({LongDoc(tail) : tail \in Tails})

NextPrefix ==
    \/ NextMapFields
    \/ ReinvokeOnPrefix

SpecPrefix == InitPrefix /\ [][NextPrefix]_vars

\* The texts of the default specification: a structured site-location
\* section, and a block of contact details with an application reference
Texts ==
    {"Site Location",
     "Address Line 1: 12 Example Street",
     "Postcode: B12 3CD",
     "Applicant: john@example.com, 07700 900123, PP-12345678"}

Init == InitWith(Texts)
Spec == Init /\ [][Next]_vars

\* Proposed use: the prior-approval declaration, a proposal sentence, and the
\* label of the fallback
UseTexts ==
    {"I/We hereby apply for Prior Approval: change of use to a single dwelling",
     "Proposed loft conversion with rear dormer.",
     "Declaration",
     "Prior approval for a larger home extension"}

InitUse == InitWith(UseTexts)
SpecUse == InitUse /\ [][Next]_vars

\* Document types: hints of the application form, the drawing and the site
\* notice
ClassifyTexts ==
    {"Application form",
     "Existing and proposed elevation",
     "Site notice",
     "Floor plan"}

InitClassify == InitWith(ClassifyTexts)
SpecClassify == InitClassify /\ [][Next]_vars

\* Classification of sequences longer than the 200 blocks it reads: up to
\* MaxHead texts, filler up to the cap, and up to MaxAfter texts after it
MaxHead == 2
MaxAfter == 1

\* head, filler blocks up to n blocks in all, then tail
PaddedDoc(head, n, tail) == head \o [i \in 1..(n - Len(head)) |-> FillerText] \o tail

Seqs(texts, n) == UNION {[1..k -> texts] : k \in 0..n}

ClassifyCapDocs ==
    {PaddedDoc(head, ClassifyCap, tail) :
        head \in Seqs(ClassifyTexts, MaxHead), tail \in Seqs(ClassifyTexts, MaxAfter)}

InitClassifyCap == InitLong(ClassifyCapDocs)
SpecClassifyCap == InitClassifyCap /\ [][NextMapFields]_vars

\* The structured section at the end of its window: the header, filler up to
\* one or two blocks before the end of the window, and labelled sub-fields
SectionTexts == {"Address Line 1: 12 Example Street", "Town: Birmingham"}

SectionDocs ==
    {PaddedDoc(<< "Site Address" >>, n, tail) :
        n \in {StructuredWindow - 1, StructuredWindow},
        tail \in Seqs(SectionTexts, MaxTail) \ {<< >>}}

InitSection == InitLong(SectionDocs)
SpecSection == InitSection /\ [][NextMapFields]_vars

\* Site address: one text for each of the three strategies, after a header
AddressTexts ==
    {"Site Address",
     "Town: Birmingham",
     "Demolition of garage at 5 High Street B12 3CD",
     "12 HIGH STREET"}

InitAddress == InitWith(AddressTexts)
SpecAddress == InitAddress /\ [][Next]_vars

\* The demolition pattern: captured addresses of 4 and of 1 characters, one
\* with a trailing comma, and a text without the pattern
DemolitionTexts ==
    {"Demolition of shed B12 3CD",
     "Demolition of a B1 1TU",
     "Demolition of garage at 5 High Street, B12 3CD",
     "Site notice"}

InitDemolition == InitWith(DemolitionTexts)
SpecDemolition == InitDemolition /\ [][Next]_vars

\* The heuristic scan: a section header, an address-shaped line, a labelled
\* line, a grid reference and a noise line of the address shape; and
\* sequences with a block after the 100 the scan reads
HeuristicTexts ==
    {"Site Location",
     "12 HIGH STREET",
     "Site Address: 12 Example Street",
     "4 2447",
     "10 SCALE BAR"}

HeuristicCapDocs ==
    {PaddedDoc(head, HeuristicScanCap, tail) :
        head \in Seqs(HeuristicTexts, 1), tail \in Seqs(HeuristicTexts, MaxAfter) \ {<< >>}}

InitHeuristic == InitWith(HeuristicTexts) \/ InitLong(HeuristicCapDocs)
SpecHeuristic == InitHeuristic /\ [][Next]_vars

\* Contact details: the word "applicant", a council block holding an email
\* and a phone, an applicant's email and phone, and a date of the phone shape;
\* and sequences whose last block is 3 positions after the first or follows
\* the 400 the scan reads
ContactTexts ==
    {"Applicant details",
     "planning@birmingham.gov.uk 0121 464 1234",
     "john@example.com 07700 900123",
     "Received 12-12-2024"}

ContactCapDocs ==
    {PaddedDoc(head, n, tail) :
        n \in {ContextWindow + 1, RegexScanCap},
        head \in Seqs(ContactTexts, 1), tail \in Seqs(ContactTexts, MaxAfter) \ {<< >>}}

InitContact == InitWith(ContactTexts) \/ InitLong(ContactCapDocs)
SpecContact == InitContact /\ [][Next]_vars

\* Application references: the portal form in lower case and in upper case,
\* the year form, and a text without a reference; and sequences with a
\* reference after the 400 blocks the scan reads
RefTexts ==
    {"Ref: pp-12345678",
     "PP-87654321",
     "Application 20241234abc",
     "Site notice"}

RefCapDocs ==
    {PaddedDoc(head, AppRefScanCap, tail) :
        head \in Seqs(RefTexts, 1), tail \in Seqs(RefTexts, MaxAfter) \ {<< >>}}

InitRef == InitWith(RefTexts) \/ InitLong(RefCapDocs)
SpecRef == InitRef /\ [][Next]_vars

\* The label fallback: a label with its value after the colon, a label
\* without a colon, a short and a long text for the blocks after it, and a
\* labelled site address, which the heuristic scan takes first; and the
\* label followed by three blocks, empty ones among them
LabelTexts ==
    {"Applicant Name: John Smith",
     "Agent Name",
     "Jane Doe",
     "Smith and Partners Limited",
     "Site Address: 12 Example Street"}

LabelNextDocs ==
    {<< "Agent Name" >> \o tail :
        tail \in [1..LabelNextBlocks -> {"Jane Doe", "Smith and Partners Limited", ""}]}

InitLabel == InitWith(LabelTexts) \/ InitLong(LabelNextDocs)
SpecLabel == InitLabel /\ [][Next]_vars

\* The proposed-use fallback: a noise block, a sentence and an all-caps line
\* of the proposal keywords, and a prior-approval declaration; and sequences
\* with a block after the 80 the fallback reads
UseCapTexts ==
    {"Copyright notes",
     "Proposed loft conversion with rear dormer.",
     "PROPOSED HMO CONVERSION",
     "Prior approval for a larger home extension"}

UseCapDocs ==
    {PaddedDoc(head, ProposedUseScanCap, tail) :
        head \in Seqs(UseCapTexts, 1), tail \in Seqs(UseCapTexts, MaxAfter) \ {<< >>}}

InitUseCap == InitWith(UseCapTexts) \/ InitLong(UseCapDocs)
SpecUseCap == InitUseCap /\ [][Next]_vars

\* Snippets: blocks of more than 240 characters with runs of whitespace, a
\* short block with a newline, and a section header
RECURSIVE Repeated(_, _)
Repeated(s, n) == IF n = 0 THEN "" ELSE s \o Repeated(s, n - 1)

SnippetTexts ==
    {"Applicant Name:  John Smith" \o Repeated(" of  Example House", 15),
     "Postcode:\tB12 3CD" \o Repeated("  near the old mill", 15),
     "PP-12345678\nreceived",
     "Site Location"}

InitSnippet == InitWith(SnippetTexts)
SpecSnippet == InitSnippet /\ [][Next]_vars

\* Evidence per field: blocks that classify the document and fill several
\* fields, each at a confidence of its own
EvidenceTexts ==
    {"Application form PP-12345678",
     "Site Address: 12 Example Street, B12 3CD",
     "Applicant Name: Jane Doe jane@example.com",
     "Existing and proposed elevation"}

InitEvidence == InitWith(EvidenceTexts)
SpecEvidence == InitEvidence /\ [][Next]_vars

\* The look-back for a section header: a header holding a postcode, a plain
\* postcode, and two headers; and sequences with the header 10 and 11
\* positions before the postcode
LookbackTexts ==
    {"Site Location B12 3CD",
     "Flat 2, B13 8QX",
     "Location of Site",
     "Property Address"}

LookbackDocs ==
    {PaddedDoc(<< header >>, n, << "Flat 2, B13 8QX" >>) :
        header \in LookbackTexts, n \in {SectionLookback, SectionLookback + 1}}

InitLookback == InitWith(LookbackTexts) \/ InitLong(LookbackDocs)
SpecLookback == InitLookback /\ [][Next]_vars

\* Ties: two postcodes of the highest context score after one of a lower
\* score, two address-shaped lines, and sequences with two address-shaped
\* lines inside a section after one outside it
TieTexts ==
    {"Flat 2, B12 3CD",
     "Postcode: B13 8QX",
     "Postcode: B14 7AA",
     "12 HIGH STREET",
     "34 PARK ROAD"}

TieLines == {"12 HIGH STREET", "34 PARK ROAD"}

TieDocs == {<< a, "Site Location", b, c >> : a \in TieLines, b \in TieLines, c \in TieLines}

InitTie == InitWith(TieTexts) \/ InitLong(TieDocs)
SpecTie == InitTie /\ [][Next]_vars

\* Postcodes: the council's PO box, and candidates of each context score
PostcodeTexts ==
    {"PO Box 28, Birmingham B1 1TU",
     "Flat 2, B12 3CD",
     "Postcode: B13 8QX",
     "Site Location"}

InitPostcode == InitWith(PostcodeTexts)
SpecPostcode == InitPostcode /\ [][Next]_vars

\* The PO-box penalty: a PO box with a postcode of its own, council text
\* with the council's postcode, a plain candidate and a section header
PoBoxTexts ==
    {"PO Box 28, Birmingham B2 4QA",
     "Council offices B1 1TU",
     "Flat 2, B12 3CD",
     "Site Location"}

InitPoBox == InitWith(PoBoxTexts)
SpecPoBox == InitPoBox /\ [][Next]_vars
\* ------------------------------------------------------------------------
\* Properties
\* ------------------------------------------------------------------------

\* The contents of the blocks of the layout, in order
Contents == [i \in DOMAIN BlocksOf(layout) |-> ContentOf(BlocksOf(layout)[i]).v]

\* map_fields has returned
MapFieldsReturned == result.returned

PriorApprovalScenario ==
    "I/We hereby apply for Prior Approval: change of use to a single dwelling"

\* C1: when a block among the first 100 has the content of the prior-approval
\* scenario, map_fields returns proposed_use "change of use to a single
\* dwelling" (the text trailing the colon) with confidence 0.9.
\* The code splits at the first ":" or "for", and "for" of "apply for" comes
\* before the colon.
PriorApprovalTakesTextAfterColon ==
    (/\ MapFieldsReturned
     /\ \E i \in DOMAIN Contents :
          i <= PriorApprovalScanCap /\ Contents[i] = PriorApprovalScenario)
    => /\ Has(result.fields, "proposed_use")
       /\ result.fields["proposed_use"] = "change of use to a single dwelling"
       /\ result.fields["proposed_use_confidence"] = 90

\* C2: for the blocks "Site Location", "Address Line 1: 12 Example Street",
\* "Postcode: B12 3CD", map_fields returns site_address "12 Example Street,
\* B12 3CD" with confidence 0.95: each labelled block gives its value to its
\* own part only.
\* The code takes the block of line 1 for line 2 as well, since its label
\* holds a "2" (the "12" of its value).
StructuredScenarioAddress ==
    (/\ MapFieldsReturned
     /\ Contents = << "Site Location", "Address Line 1: 12 Example Street",
                      "Postcode: B12 3CD" >>)
    => /\ Has(result.fields, "site_address")
       /\ result.fields["site_address"] = "12 Example Street, B12 3CD"
       /\ result.fields["site_address_confidence"] = 95

\* The text classify_document scores
ClassifyCorpus == ToLower(JoinNorm(blocks, 1, Min(ClassifyCap, Len(blocks))))

\* C3: a block sequence whose first 200 blocks match at least one hint of the
\* application form and at least one hint of the drawing is classified
\* "application_form", however many drawing hints match.
\* The code takes the type of the highest score and uses the order only to
\* break ties of the scores.
ApplicationFormBeforeDrawing ==
    (/\ Has(fields, "document_type")
     /\ Score(ClassifyCorpus, DOC_TYPE_HINTS["application_form"]) >= 1
     /\ Score(ClassifyCorpus, DOC_TYPE_HINTS["drawing"]) >= 1)
    => fields["document_type"] = "application_form"
\* The arbitration over the results s1, s2, s3 of the three strategies, as the
\* fields hold it once the site-address stage has written
ArbitrationOrder(s1, s2, s3) ==
    /\ s1.found =>
         /\ Has(fields, "site_address")
         /\ fields["site_address"] = s1.value
         /\ fields["site_address_confidence"] = 95
    /\ (~s1.found /\ s2.found) =>
         /\ Has(fields, "site_address")
         /\ fields["site_address"] = s2.value
         /\ fields["site_address_confidence"] = 85
    /\ (~s1.found /\ ~s2.found /\ s3.found) =>
         /\ Has(fields, "site_address")
         /\ fields["site_address"] = s3.value
         /\ fields["site_address_confidence"] = s3.conf
    /\ (~s1.found /\ ~s2.found /\ ~s3.found) => ~Has(fields, "site_address")

\* C4: the arbitration of the site address is strictly ordered: when the
\* structured strategy yields an address, that value is returned (confidence
\* 0.95) even if a demolition or heuristic candidate exists; the demolition
\* result (0.85) only when the structured strategy yields nothing; the
\* heuristic candidate only when both yield nothing.
StrictArbitration ==
    pc = "prior_approval" =>
        ArbitrationOrder(extract_site_address_from_section(blocks),
                         extract_address_from_demolition_pattern(blocks),
                         HeuristicBest(blocks))

\* The structured strategy has won over a heuristic candidate of another
\* value, the demolition pattern giving nothing
StructuredOverOthers(s1, s2, s3) ==
    /\ s1.found /\ ~s2.found /\ s3.found
    /\ s1.value # s3.value
    /\ fields["site_address"] = s1.value
    /\ fields["site_address_confidence"] = 95

StructuredWonArbitration ==
    /\ pc = "prior_approval"
    /\ Has(fields, "site_address")
    /\ StructuredOverOthers(extract_site_address_from_section(blocks),
                            extract_address_from_demolition_pattern(blocks),
                            HeuristicBest(blocks))

\* The page of the block as the evidence holds it
PageNumber(b) == PageOf(b).v

\* "p{page_number}b{index}" of a block; the index is rendered as Python
\* renders the value of b.get("index", "")
SourceBlockId(b) ==
    "p" \o IntStr(PageNumber(b)) \o "b" \o
    (IF b.index.k = "val" THEN IntStr(b.index.v)
     ELSE IF b.index.k = "none" THEN "None" ELSE "")

\* The single evidence entry of the field cites the block b: its page, its
\* block id and its normalized text
Cites(field, b) ==
    /\ Len(evidence[field]) = 1
    /\ evidence[field][1].page = PageNumber(b)
    /\ evidence[field][1].block_id = SourceBlockId(b)
    /\ evidence[field][1].snippet = Prefix(norm(ContentOf(b)), SnippetCap)

\* The block's text holds a postcode beside the PO-box marker
PoBoxPostcode(t) == Contains(ToLower(t), "po box") /\ PostcodeSearch(t).found

\* The block at position j gives a candidate that is not penalized, of
\* confidence 0.3 or more
UnpenalizedCandidate(blks, j) ==
    /\ PostcodeSearch(ContentOf(blks[j]).v).found
    /\ ~Contains(ToLower(ContentOf(blks[j]).v), "po box")
    /\ PostcodeConfidence(blks, j, PostcodeOf(blks, j)) >= 30

\* C5: a block that holds a council PO-box marker together with a postcode is
\* never the block selected for the postcode when another block among the
\* first 400 gives a candidate of unpenalized confidence 0.3 or more.
PoBoxNeverSelected ==
    (pc = "contact" /\ Has(fields, "postcode")) =>
        \A i \in Upto(blocks, RegexScanCap) :
            (/\ PoBoxPostcode(ContentOf(blocks[i]).v)
             /\ \E j \in Upto(blocks, RegexScanCap) : j # i /\ UnpenalizedCandidate(blocks, j))
            => ~Cites("postcode", blocks[i])

\* A PO-box block comes before a candidate of the lowest context score, and
\* the postcode is the latter's
PoBoxPassedOver ==
    /\ pc = "contact"
    /\ Has(fields, "postcode")
    /\ \E i, j \in Upto(blocks, RegexScanCap) :
          /\ i < j
          /\ PoBoxPostcode(ContentOf(blocks[i]).v)
          /\ UnpenalizedCandidate(blocks, j)
          /\ PostcodeConfidence(blocks, j, PostcodeOf(blocks, j)) = 50
          /\ fields["postcode"] = PostcodeOf(blocks, j)
          /\ Cites("postcode", blocks[j])

\* The value is read in the text of the block (whatever the case)
TakenFrom(value, b) == Contains(ToUpper(norm(ContentOf(b))), ToUpper(value))

\* C6, as stated: for every populated field, the block_id of its evidence entry
\* is "p{page_number}b{index}" of the exact block the value was taken from, for
\* every strategy, the structured address and the label fallback included.
\* The structured strategy cites the section header and the label fallback
\* the label's block, which hold nothing of the value.
EvidenceCitesValueBlock ==
    \A field \in DOMAIN evidence :
        \E i \in DOMAIN blocks :
            Cites(field, blocks[i]) /\ TakenFrom(fields[field], blocks[i])

\* The block at position i is the one the label fallback returns the value at
LabelSource(field, value, i) ==
    /\ field \in DOMAIN LABEL_PATTERNS
    /\ LabelValueAt(blocks, i, LABEL_PATTERNS[field]) = value

\* The block at position i is the source block of the site address: the
\* header of the section the structured strategy reads, the block the
\* demolition pattern or the heuristic matches, or the label's block
SiteAddressSource(value, i) ==
    \/ /\ ContainsAny(ToLower(norm(ContentOf(blocks[i]))), StructuredHeaders)
       /\ StructuredFrom(blocks, i).value = value
    \/ DemolitionAddress(ContentOf(blocks[i])) = value
    \/ /\ HeuristicCandidate(blocks, i).conf > 0
       /\ HeuristicCandidate(blocks, i).value = value
    \/ LabelSource("site_address", value, i)

ProposedUseSource(value, i) ==
    \/ PriorApprovalText(blocks[i]) = value
    \/ /\ IsProposal(norm(ContentOf(blocks[i])))
       /\ norm(ContentOf(blocks[i])) = value
    \/ LabelSource("proposed_use", value, i)

\* The block at position i, of the text t, is the source block of the field's
\* value
SourceOf(field, value, i, t) ==
    CASE field = "application_ref" ->
           AppRefSearch(t).found /\ UpperGroup(t, AppRefSearch(t)) = value
      [] field = "postcode" -> PostcodeSearch(t).found /\ PostcodeIn(t) = value
      [] field = "applicant_email" ->
           EmailSearch(t).found /\ Group(t, EmailSearch(t)) = value
      [] field = "applicant_phone" -> PhoneIn(t) = value
      [] field = "site_address" -> SiteAddressSource(value, i)
      [] field = "proposed_use" -> ProposedUseSource(value, i)
      [] OTHER -> LabelSource(field, value, i)

\* C6, amended: for every populated field, the evidence entry is built from
\* the page, the index entry (empty when the block carries none) and the text
\* of the block the strategy names as its source: the block the pattern
\* matches, but the section header for the structured address and the label's
\* block for the label fallback, whose values are read in the blocks after.
EvidenceCitesSourceBlock ==
    \A field \in DOMAIN evidence :
        /\ Has(fields, field)
        /\ \E i \in DOMAIN blocks :
              /\ Cites(field, blocks[i])
              /\ SourceOf(field, fields[field], i, ContentOf(blocks[i]).v)

\* A run whose site address is the structured one, citing the header, beside
\* an e-mail address citing the block it was matched in
HeaderCited ==
    /\ MapFieldsReturned
    /\ Has(evidence, "site_address") /\ Has(evidence, "applicant_email")
    /\ fields["site_address_confidence"] = 95
    /\ \E i \in DOMAIN blocks :
          /\ Cites("site_address", blocks[i])
          /\ norm(ContentOf(blocks[i])) = "Site Location"
          /\ ~TakenFrom(fields["site_address"], blocks[i])

\* The statements of map_fields
MapFieldsStages ==
    {"map_fields", "app_ref", "site_address", "prior_approval", "proposed_use", "labels",
     "postcode", "contact", "return"}

\* C7: in extract_from_pdf_bytes every text block has its index assigned
\* before map_fields is invoked on the layout, so each field evidence block_id
\* of that run carries the index of its block.
\* The code calls map_fields at line 182 and writes the indices at line 206.
IndexAssignedBeforeMapFields ==
    caller = "pipeline" =>
        /\ pc \in MapFieldsStages =>
              \A i \in DOMAIN BlocksOf(layout) : BlocksOf(layout)[i].index.k = "val"
        /\ \A field \in DOMAIN evidence :
              \E i \in DOMAIN blocks :
                  evidence[field][1].block_id =
                      "p" \o IntStr(PageNumber(blocks[i])) \o "b" \o IntStr(i - 1)

\* C8: map_fields is deterministic: two invocations on the same block sequence
\* return equal fields and equal evidence_index, whatever was invoked before.
SecondRunEqualsFirst ==
    (run > 1 /\ MapFieldsReturned) => result = prev

SecondRunReturned ==
    /\ run = 2
    /\ MapFieldsReturned
    /\ prev.returned
    /\ Has(result.evidence_index, "site_address")
    /\ Has(result.evidence_index, "applicant_email")

\* C9: when text_blocks is empty, missing or null, map_fields returns the
\* fields {document_type: "unknown"} and an empty evidence_index: no other
\* field and no confidence entry.
NoBlocksOnlyUnknown ==
    (MapFieldsReturned /\ BlocksOf(layout) = << >>) =>
        /\ result.fields = [document_type |-> "unknown"]
        /\ result.evidence_index = EmptyDict

NullBlocksReturned ==
    /\ MapFieldsReturned
    /\ layout.text_blocks.k = "none"
    /\ DOMAIN result.fields = {"document_type"}

\* C10: map_fields never raises: for every text_blocks list, malformed blocks
\* that lack content, page_number or index or whose content is null included,
\* it returns a result.
\* The code hands a null content to APPREF_RE.search, and a null page_number to
\* int(): both raise TypeError.
MapFieldsNeverRaises == pc # "raised" /\ error = ""
\* C11: within one pass of map_fields every field is written at most once: once
\* a field has a value, no later strategy or fallback step changes the value
\* or its confidence, and no second strategy adds evidence for it.
FieldsWrittenOnce ==
    [][pc # "map_fields" =>
         /\ \A f \in DOMAIN fields : f \in DOMAIN fields' /\ fields'[f] = fields[f]
         /\ \A f \in DOMAIN evidence : f \in DOMAIN evidence' /\ evidence'[f] = evidence[f]]_vars

\* The label fallback is over, the site address is the structured one, and
\* the label of the site address would have given another value
LabelFallbackPassedOver ==
    /\ pc = "postcode"
    /\ Has(fields, "site_address")
    /\ fields["site_address_confidence"] = 95
    /\ extract_by_label(blocks, LABEL_PATTERNS["site_address"]).found
    /\ extract_by_label(blocks, LABEL_PATTERNS["site_address"]).value # fields["site_address"]
ConfidenceSuffix == "_confidence"

\* The key is the confidence entry of a field
IsConfidenceKey(key) == EndsWith(key, ConfidenceSuffix)

\* The field a confidence entry belongs to
FieldOfConfidence(key) == SubSeq(key, 1, Len(key) - Len(ConfidenceSuffix))

\* The fields fs pair every value with a confidence between 0.0 and 1.0
PairedWithConfidence(fs) ==
    /\ Has(fs, "document_type")
    /\ ~Has(fs, "document_type" \o ConfidenceSuffix)
    /\ \A key \in DOMAIN fs \ {"document_type"} :
          IF IsConfidenceKey(key)
          THEN /\ Has(fs, FieldOfConfidence(key))
               /\ fs[key] >= 0 /\ fs[key] <= 100
          ELSE Has(fs, key \o ConfidenceSuffix)

\* C12: in every result of map_fields, fields holds document_type, every
\* populated field other than document_type has a "{name}_confidence" entry
\* between 0.0 and 1.0, and no confidence entry exists for a field that is not
\* populated.
EveryFieldHasConfidence ==
    MapFieldsReturned => PairedWithConfidence(result.fields)

\* A result of four populated fields beside the document type
FourFieldsReturned ==
    /\ MapFieldsReturned
    /\ Cardinality(DOMAIN result.fields) >= 9
    /\ Has(result.fields, "application_ref")
    /\ Has(result.fields, "site_address")
\* The finding is an error under review or failed that lists a missing field
\* which is not resolved and which the document type owns
AsksForOwnedField(finding, resolved, owned) ==
    /\ finding.severity = "error"
    /\ finding.status \in {"needs_review", "fail"}
    /\ finding.missing_fields.k = "val"
    /\ \E k \in DOMAIN finding.missing_fields.v :
          /\ finding.missing_fields.v[k] \notin resolved
          /\ finding.missing_fields.v[k] \in owned

\* The field-ownership set of a document type, empty for a type without an
\* ownership entry
OwnedBy(doc_type) ==
    IF doc_type \in DOMAIN DOC_FIELD_OWNERSHIP THEN DOC_FIELD_OWNERSHIP[doc_type] ELSE {}

\* The condition of the trigger on the inputs handed over
TriggerCondition ==
    /\ NeedsLlm(validation)
    /\ \E i \in DOMAIN validation.findings.v :
          AsksForOwnedField(validation.findings.v[i], ResolvedKeys(resolved_fields),
                            OwnedBy(DocTypeOf(extraction)))
    /\ Len(extraction.text_blocks.v) >= 5

\* C13: should_trigger_llm returns true if and only if needs_llm is set, some
\* finding of severity "error" and status needs_review or fail lists a missing
\* field that is not resolved and that the document type of the extraction
\* owns, and the extraction has at least 5 text blocks; for a document type
\* with no ownership entry it returns false.
TriggersExactlyWhenOwned ==
    pc = "gated" =>
        /\ triggered.v <=> TriggerCondition
        /\ DocTypeOf(extraction) \notin DOMAIN DOC_FIELD_OWNERSHIP => ~triggered.v

\* The gate triggered on the second finding, for a field that is not the
\* resolved one
TriggeredOnSecondFinding ==
    /\ pc = "gated"
    /\ triggered = Val(TRUE)
    /\ Len(validation.findings.v) = 2
    /\ validation.findings.v[1].severity = "warning"
    /\ ResolvedKeys(resolved_fields) = {"site_address"}
\* C14: every strategy of map_fields reads only a capped prefix of the block
\* sequence (the first 400 blocks and the 2-block context window): two
\* sequences that agree on the prefix and differ only in later blocks give
\* equal fields and evidence_index.
\* extract_by_label loops over every block of the sequence, so a label after
\* the prefix fills a field.
PrefixDecidesResult ==
    (run = 2 /\ MapFieldsReturned /\ prev.returned) => result = prev
TieOrder ==
    << "application_form", "site_notice", "site_plan", "design_statement", "heritage",
       "drawing" >>

TieRank(dtype) == CHOOSE k \in DOMAIN TieOrder : TieOrder[k] = dtype

\* The number of hints of each type found in a corpus
ScoresIn(corpus) == [t \in DOMAIN DOC_TYPE_HINTS |-> Score(corpus, DOC_TYPE_HINTS[t])]

\* dtype is the type of the highest score, the earlier one of TieOrder on a
\* tie, and "unknown" when every score is zero
HighestScore(dtype, scores) ==
    IF \A t \in DOMAIN scores : scores[t] = 0
    THEN dtype = "unknown"
    ELSE /\ dtype \in DOMAIN scores
         /\ \A t \in DOMAIN scores :
               /\ scores[t] <= scores[dtype]
               /\ scores[t] = scores[dtype] => TieRank(dtype) <= TieRank(t)

\* C16: classify_document scores each type by the number of its hints found
\* in the lower-cased corpus of the first 200 blocks and returns the type of
\* the highest score, the earlier type of application_form, site_notice,
\* site_plan, design_statement, heritage, drawing on a tie; it returns
\* "unknown" exactly when every type scores zero, and the blocks after the
\* 200th do not count.
HighestScoreOfFirstBlocks ==
    MapFieldsReturned =>
        /\ Has(result.fields, "document_type")
        /\ HighestScore(result.fields["document_type"], ScoresIn(ClassifyCorpus))

TieBeforeLaterBlock(capped, whole) ==
    /\ capped["site_notice"] = capped["application_form"]
    /\ capped["drawing"] = 0
    /\ whole["drawing"] > whole["application_form"]

\* The application form and the site notice tie in the first 200 blocks, and
\* the block after them would have made the drawing the highest score.
TieBrokenBeforeLaterBlock ==
    /\ MapFieldsReturned
    /\ Len(blocks) > ClassifyCap
    /\ result.fields["document_type"] = "application_form"
    /\ TieBeforeLaterBlock(ScoresIn(ClassifyCorpus),
                           ScoresIn(ToLower(JoinNorm(blocks, 1, Len(blocks)))))
\* The position of the block the structured strategy takes as the header: the
\* first of the first 200 blocks naming the section
HeaderPosition ==
    First({i \in Upto(blocks, StructuredScanCap) :
             ContainsAny(ToLower(norm(ContentOf(blocks[i]))), StructuredHeaders)})

\* C17: with the header at block h, the structured strategy collects the
\* labelled sub-fields of the blocks h+1 through h+20: a sub-field in block
\* h+20 is part of the returned address.
\* The loop runs over range(start_idx + 1, start_idx + 20), which ends at block
\* h+19.
TwentiethBlockCollected ==
    (/\ MapFieldsReturned
     /\ HeaderPosition # 0
     /\ Len(blocks) >= HeaderPosition + StructuredWindow
     /\ norm(ContentOf(blocks[HeaderPosition + StructuredWindow])) = "Town: Birmingham")
    => /\ Has(result.fields, "site_address")
       /\ Contains(result.fields["site_address"], "Birmingham")
\* The text the pattern captures between "demolition of" and the postcode in
\* the block at position i, its trailing comma stripped
CapturedAddress(m) == StripTrailingComma(Strip(m.group1))

CapturedLongerThan(s2, n) ==
    s2.found /\ Len(CapturedAddress(DemolitionSearch(norm(ContentOf(blocks[s2.src]))))) > n

\* C18: the demolition strategy returns an address (confidence 0.85) only if
\* the text captured between "demolition of" and the postcode, trailing commas
\* stripped, is longer than 10 characters; the test is on the captured text
\* alone.
\* The code tests the length of the address with ", " and the postcode
\* appended, so a captured text of 4 characters is returned.
DemolitionCaptureOverTen ==
    (/\ pc \in {"prior_approval", "done"}
     /\ Has(fields, "site_address")
     /\ fields["site_address_confidence"] = 85)
    => CapturedLongerThan(extract_address_from_demolition_pattern(blocks), MinDemolitionLen)
\* A line the heuristic scan passes over: empty, noise, too short, a
\* disclaimer, a grid reference or a number
Skipped(t, tl) ==
    \/ t = ""
    \/ is_noise(t)
    \/ Len(t) < 5
    \/ Contains(tl, "disclaimer")
    \/ Contains(tl, "for information")
    \/ IsGridReference(t)
    \/ IsNumber(t)

\* The text after the first colon of a labelled line
ColonValue(t) == NormStr(Second(SplitOnce(t, {":"})))

IsLabelledLine(t, tl) ==
    /\ \E label \in {"site address", "address of site", "site location"} : Contains(tl, label)
    /\ Len(ColonValue(t)) > 5

\* The score of a line: 0 for a line that is no candidate
LineScoreOf(t, tl, inside) ==
    IF Skipped(t, tl) THEN 0
    ELSE IF AddressLike(t) THEN (IF inside THEN 70 ELSE 40)
    ELSE IF IsLabelledLine(t, tl) THEN (IF inside THEN 80 ELSE 60)
    ELSE 0

LineScore(t, inside) == LineScoreOf(t, ToLower(t), inside)

LineValue(t) == IF AddressLike(t) THEN t ELSE ColonValue(t)

\* The scores of the first 100 blocks
LineScores ==
    [i \in 1..Min(100, Len(blocks)) |->
        LineScore(norm(ContentOf(blocks[i])), is_in_site_location_section(blocks, i))]

\* The field holds the candidate of the highest score, above 0.3, and is
\* absent when no line is a candidate
MaximumTaken(scores) ==
    IF \A i \in DOMAIN scores : scores[i] = 0
    THEN ~Has(fields, "site_address")
    ELSE /\ Has(fields, "site_address")
         /\ fields["site_address_confidence"] > 30
         /\ \A i \in DOMAIN scores : scores[i] <= fields["site_address_confidence"]
         /\ \E i \in DOMAIN scores :
               /\ scores[i] = fields["site_address_confidence"]
               /\ fields["site_address"] = LineValue(norm(ContentOf(blocks[i])))

LaterLineWon(scores) ==
    \E i, j \in DOMAIN scores :
        /\ i < j
        /\ scores[i] > 0
        /\ scores[i] < scores[j]
        /\ fields["site_address_confidence"] = scores[j]
        /\ fields["site_address"] = LineValue(norm(ContentOf(blocks[j])))

StatedConfidence(t, tl, inside, postcode) ==
    IF is_council_contact(t) /\ postcode = "B1 1TU" THEN 10
    ELSE IF inside \/ Contains(tl, "postcode") THEN 90
    ELSE IF Contains(tl, "site") \/ Contains(tl, "address") THEN 70
    ELSE 50

StatedScore(i, t) ==
    StatedConfidence(t, ToLower(t), is_in_site_location_section(blocks, i), PostcodeIn(t))

\* The stated confidences of the candidates among the first 400 blocks
StatedScores ==
    [i \in {j \in 1..Min(400, Len(blocks)) : PostcodeSearch(ContentOf(blocks[j]).v).found} |->
        StatedScore(i, ContentOf(blocks[i]).v)]

\* The postcode is the top candidate of the scores when its confidence is 0.3
\* or more, and absent otherwise
TopRankedTaken(scores) ==
    IF \A i \in DOMAIN scores : scores[i] < 30
    THEN ~Has(fields, "postcode")
    ELSE /\ Has(fields, "postcode")
         /\ \A i \in DOMAIN scores : scores[i] <= fields["postcode_confidence"]
         /\ \E i \in DOMAIN scores :
               /\ scores[i] = fields["postcode_confidence"]
               /\ fields["postcode"] = PostcodeIn(ContentOf(blocks[i]).v)

\* C20: a block of the first 400 holding a postcode shape gives a candidate of
\* confidence 0.9 inside a site-location section or with "postcode" in its
\* text, else 0.7 with "site" or "address", else 0.5, lowered to 0.1 exactly
\* when the block is council-contact text and the postcode is the council's
\* PO-box postcode; the postcode field is the top candidate if and only if its
\* confidence is 0.3 or more, and absent when no block holds a postcode shape.
\* The code lowers every candidate of a block naming a PO box, whatever its
\* postcode.
PostcodeRankedAsStated ==
    pc = "contact" => TopRankedTaken(StatedScores)
\* The word "applicant" occurs in the blocks within 2 positions of position i
ApplicantNear(i) ==
    \E j \in Max(1, i - 2)..Min(Len(blocks), i + 2) :
        Contains(ToLower(norm(ContentOf(blocks[j]))), "applicant")

\* The email and the phone a block's text gives, "" for none
EmailMatch(t, m) == IF m.found THEN Group(t, m) ELSE ""
EmailIn(t) == EmailMatch(t, EmailSearch(t))

ContactMatch(field, t) == IF field = "applicant_email" THEN EmailIn(t) ELSE PhoneIn(t)

\* The first of the first 400 blocks that is not council-contact text and
\* gives the field, 0 for none
FirstContactBlock(field) ==
    First({i \in 1..Min(400, Len(blocks)) :
             /\ ~is_council_contact(ContentOf(blocks[i]).v)
             /\ ContactMatch(field, ContentOf(blocks[i]).v) # ""})

\* The field is the match of the block at position i, with the confidence of
\* its context and that block as its evidence; it is absent when i is 0
ContactTakenAt(field, i) ==
    IF i = 0 THEN ~Has(fields, field)
    ELSE /\ Has(fields, field)
         /\ fields[field] = ContactMatch(field, ContentOf(blocks[i]).v)
         /\ fields[ConfidenceKey(field)] = (IF ApplicantNear(i) THEN 80 ELSE 50)
         /\ Cites(field, blocks[i])
         /\ ~is_council_contact(ContentOf(blocks[i]).v)

\* C21: applicant_email and applicant_phone are never taken from a
\* council-contact block: each is the match of the first block among the
\* first 400 that is not council-contact text and has a match (for the phone
\* one that is not date-like and of at least 9 normalized characters), with
\* confidence 0.8 when "applicant" occurs within 2 blocks of it, else 0.5.
ContactFromFirstOwnBlock ==
    pc = "return" =>
        /\ ContactTakenAt("applicant_email", FirstContactBlock("applicant_email"))
        /\ ContactTakenAt("applicant_phone", FirstContactBlock("applicant_phone"))

\* A council block with an email and a phone comes first, and both fields are
\* the applicant's from a later block.
CouncilBlockPassedOver ==
    /\ pc = "return"
    /\ Len(blocks) >= 2
    /\ is_council_contact(ContentOf(blocks[1]).v)
    /\ EmailIn(ContentOf(blocks[1]).v) # ""
    /\ PhoneIn(ContentOf(blocks[1]).v) # ""
    /\ Has(fields, "applicant_email")
    /\ Has(fields, "applicant_phone")
    /\ fields["applicant_email"] = "john@example.com"
    /\ fields["applicant_phone"] = "07700 900123"
\* The first of the first 400 blocks that matches the reference pattern, 0
\* for none
FirstRefBlock ==
    First({i \in 1..Min(400, Len(blocks)) : AppRefSearch(ContentOf(blocks[i]).v).found})

\* The reference a text holds, upper-cased
RefOf(t) == ToUpper(Group(t, AppRefSearch(t)))

RefConfidence(ref) == IF StartsWith(ref, "PP-") THEN 90 ELSE 80

\* The field is the reference of the block at position i, with the confidence
\* of its form in the field and in the evidence entry, which cites the block
RefTakenAt(i) ==
    IF i = 0 THEN ~Has(fields, "application_ref")
    ELSE /\ Has(fields, "application_ref")
         /\ fields["application_ref"] = RefOf(ContentOf(blocks[i]).v)
         /\ fields["application_ref_confidence"] = RefConfidence(fields["application_ref"])
         /\ Cites("application_ref", blocks[i])
         /\ evidence["application_ref"][1].confidence = fields["application_ref_confidence"]

\* C22: application_ref is the upper-cased match of the first block, among
\* the first 400, that matches the reference pattern; its confidence is 0.9
\* for the PP- form and 0.8 otherwise; the evidence entry carries the same
\* confidence and points to that block; no later block is considered.
RefFromFirstMatch ==
    pc = "site_address" => RefTakenAt(FirstRefBlock)

\* A reference matched in lower case is written in upper case from the first
\* of two matching blocks.
LowerCaseRefTaken ==
    /\ pc = "site_address"
    /\ Has(fields, "application_ref")
    /\ fields["application_ref"] = "PP-12345678"
    /\ fields["application_ref_confidence"] = 90
    /\ \E j \in DOMAIN blocks :
          /\ j > FirstRefBlock
          /\ AppRefSearch(ContentOf(blocks[j]).v).found
          /\ RefOf(ContentOf(blocks[j]).v) # "PP-12345678"
\* The normalized text of the block j positions after position i, "" past the
\* end of the sequence
TextAfter(i, j) == IF i + j <= Len(blocks) THEN norm(ContentOf(blocks[i + j])) ELSE ""

\* The non-empty texts of the next blocks joined in turn, stopping at the
\* first joined text of more than 20 characters
JoinedUntilLong(c1, c2, c3) ==
    IF Len(c1) > 20 THEN c1 ELSE IF Len(c2) > 20 THEN c2 ELSE c3

NextBlocksText(n1, n2, n3) ==
    JoinedUntilLong(n1, JoinSpace(n1, n2), JoinSpace(JoinSpace(n1, n2), n3))

\* The value the block at position i yields for label phrases: the text after
\* its first colon, else the text of the next blocks; "" for none
StatedLabelValue(i, t, phrases) ==
    IF ~\E p \in phrases : Contains(ToLower(t), p) THEN ""
    ELSE IF ColonValue(t) # "" THEN ColonValue(t)
    ELSE NextBlocksText(TextAfter(i, 1), TextAfter(i, 2), TextAfter(i, 3))

StatedLabelValues(phrases) ==
    [i \in DOMAIN blocks |-> StatedLabelValue(i, norm(ContentOf(blocks[i])), phrases)]

\* The step has written the value of the first block that yields one, with
\* confidence 0.7, and nothing else; or nothing when no block yields a value
LabelHitWritten(field, values, hit) ==
    IF hit = 0 THEN fields' = fields /\ evidence' = evidence
    ELSE /\ fields' = Put(Put(fields, field, values[hit]), ConfidenceKey(field), 70)
         /\ DOMAIN evidence' = DOMAIN evidence \cup {field}
         /\ Len(evidence'[field]) = 1
         /\ evidence'[field][1].confidence = 70
         /\ evidence'[field][1].block_id = SourceBlockId(blocks[hit])

LabelStep(field, values) ==
    IF Has(fields, field) THEN fields' = fields /\ evidence' = evidence
    ELSE LabelHitWritten(field, values, First({i \in DOMAIN values : values[i] # ""}))

NonNoise == {i \in DOMAIN blocks : norm(ContentOf(blocks[i])) # ""
                                   /\ ~is_noise(norm(ContentOf(blocks[i])))}

\* The first n of a set of positions
FirstOf(positions, n) ==
    {i \in positions : Cardinality({j \in positions : j <= i}) <= n}

\* A text that matches a proposal keyword, has 20 characters or more and is
\* all-caps or ends with a full stop
Qualifies(t) ==
    /\ ProposalHint(t)
    /\ Len(t) >= 20
    /\ (looks_like_allcaps(t) \/ EndsWith(t, "."))

\* The field is the text of the block at position q with the confidence of
\* its length, and absent when q is 0
FallbackTakenAt(q) ==
    IF q = 0 THEN ~Has(fields, "proposed_use")
    ELSE /\ Has(fields, "proposed_use")
         /\ fields["proposed_use"] = norm(ContentOf(blocks[q]))
         /\ fields["proposed_use_confidence"] =
               (IF Len(norm(ContentOf(blocks[q]))) >= 30 THEN 70 ELSE 50)

FirstQualifying(scanned) ==
    First({i \in scanned : Qualifies(norm(ContentOf(blocks[i])))})

DeclarationFound ==
    \E i \in 1..Min(100, Len(blocks)) : PriorApprovalText(blocks[i]) # ""

\* C24: the prior-approval declaration (first 100 blocks, confidence 0.9)
\* takes precedence for proposed_use; only when it yields nothing does the
\* fallback scan the first 80 non-noise blocks and return the first one that
\* matches a proposal keyword, has 20 characters or more and is all-caps or
\* ends with a full stop, with confidence 0.7 from 30 characters and 0.5
\* below; no block after the first qualifying one is considered.
\* The code reads the first 80 blocks and passes over the noise among them, so
\* the 80th non-noise block is not read when a noise block comes before it.
FallbackOverNonNoiseBlocks ==
    (pc = "labels" /\ label_i = 1) =>
        IF DeclarationFound
        THEN Has(fields, "proposed_use") /\ fields["proposed_use_confidence"] = 90
        ELSE FallbackTakenAt(FirstQualifying(FirstOf(NonNoise, 80)))
\* A text with single spaces only: no tab, no newline, no two spaces in a row,
\* no space at its start
SingleSpaced(s) ==
    /\ \A i \in 1..Len(s) : At(s, i) \notin {"\t", "\n"}
    /\ \A i \in 1..(Len(s) - 1) : ~(At(s, i) = " " /\ At(s, i + 1) = " ")
    /\ At(s, 1) # " "

\* The entry's snippet is the normalized text of the block it cites, cut to
\* 240 characters
SnippetOfSource(entry) ==
    /\ Len(entry.snippet) <= 240
    /\ SingleSpaced(entry.snippet)
    /\ \E i \in DOMAIN blocks :
          /\ SourceBlockId(blocks[i]) = entry.block_id
          /\ entry.snippet = Prefix(norm(ContentOf(blocks[i])), 240)

\* C25: every evidence entry map_fields writes has for its snippet the
\* whitespace-normalized source text cut to at most 240 characters, whatever
\* the length of the source block.
SnippetsNormalizedAndCut ==
    \A f \in DOMAIN evidence : \A k \in DOMAIN evidence[f] : SnippetOfSource(evidence[f][k])

\* An entry cites a block of more than 240 characters with a run of
\* whitespace in its first 240, and its snippet has 240 characters.
LongBlockCut ==
    \E f \in DOMAIN evidence : \E i \in DOMAIN blocks :
        /\ SourceBlockId(blocks[i]) = evidence[f][1].block_id
        /\ Len(ContentOf(blocks[i]).v) > 240
        /\ Len(norm(ContentOf(blocks[i]))) > 240
        /\ ~SingleSpaced(Prefix(ContentOf(blocks[i]).v, 240))
        /\ Len(evidence[f][1].snippet) = 240
\* A block holds one of the section-header phrases
HoldsHeader(b) ==
    \E h \in {"site location", "site address", "address of site", "location of site",
              "property address"} : Contains(ToLower(norm(ContentOf(b))), h)

\* One of the 10 blocks before position i, as far as there are any, holds a
\* header: the positions max(0, i-10) to i-1 of the 0-based sequence
HeaderInWindow(i) == \E j \in Max(1, i - 10)..(i - 1) : HoldsHeader(blocks[j])

\* The context score of the postcode candidate at position i by the window
WindowScoreOf(tl, inside) ==
    IF inside \/ Contains(tl, "postcode") THEN 90
    ELSE IF Contains(tl, "site") \/ Contains(tl, "address") THEN 70
    ELSE 50

WindowScores ==
    [i \in {j \in 1..Min(400, Len(blocks)) : PostcodeSearch(ContentOf(blocks[j]).v).found} |->
        WindowScoreOf(ToLower(ContentOf(blocks[i]).v), HeaderInWindow(i))]

\* C26: _is_in_site_location_section(blocks, i) is true if and only if one of
\* the blocks at positions max(0, i-10) to i-1 holds a section-header phrase;
\* block i itself and the blocks more than 10 positions before it never make
\* it true. The function is observed in the confidence of the postcode.
SectionWindowIsTenBefore ==
    /\ \A i \in DOMAIN blocks : is_in_site_location_section(blocks, i) <=> HeaderInWindow(i)
    /\ pc = "contact" => TopRankedTaken(WindowScores)

\* The header is 11 positions before the postcode, no header is nearer, and
\* the postcode is not scored as inside a section.
HeaderOutsideWindow ==
    /\ pc = "contact"
    /\ Has(fields, "postcode")
    /\ fields["postcode_confidence"] = 50
    /\ Len(blocks) > 11
    /\ Cites("postcode", blocks[Len(blocks)])
    /\ HoldsHeader(blocks[Len(blocks) - 11])
\* The populated fields of fs other than document_type
PopulatedFields(fs) == {key \in DOMAIN fs \ {"document_type"} : ~IsConfidenceKey(key)}

\* The evidence ev holds one entry for each populated field of fs, and nothing
\* else
EvidencePerField(fs, ev) ==
    /\ \A field \in PopulatedFields(fs) :
          /\ Has(ev, field)
          /\ Len(ev[field]) = 1
          /\ ev[field][1].confidence = fs[field \o "_confidence"]
          /\ ev[field][1].source_doc_type = fs["document_type"]
    /\ \A key \in DOMAIN ev : key \in PopulatedFields(fs)

\* C27: in the result of map_fields, for every populated field other than
\* document_type evidence_index holds exactly one entry under the field's
\* name, whose confidence equals fields["{field}_confidence"] and whose
\* source_doc_type equals fields.document_type; evidence_index has no key for a
\* field that is not populated.
\* The pipeline adds the general evidence of the text blocks under keys of
\* their own, which are no field names; the field entries stay as returned.
OneEvidenceEntryPerField ==
    MapFieldsReturned =>
        IF caller = "pipeline" /\ pc = "done"
        THEN EvidencePerField(result.fields,
                              [key \in DOMAIN result.evidence_index \ DOMAIN evidence_index |->
                                 result.evidence_index[key]])
        ELSE EvidencePerField(result.fields, result.evidence_index)

\* A classified document returned with several fields at different
\* confidences, one of the regex fields not populated, on a second invocation
SeveralFieldsOneEntryEach ==
    /\ MapFieldsReturned
    /\ run > 1
    /\ result.fields["document_type"] # "unknown"
    /\ Has(result.fields, "application_ref")
    /\ Has(result.fields, "site_address")
    /\ Has(result.fields, "postcode")
    /\ result.fields["application_ref_confidence"] # result.fields["site_address_confidence"]
    /\ ~Has(result.fields, "applicant_phone")
\* No block before position i reaches the confidence of the block at i, and no
\* block after it exceeds it
EarliestOfTop(conf, i) ==
    /\ \A j \in DOMAIN conf : j < i => conf[j] < conf[i]
    /\ \A j \in DOMAIN conf : conf[j] <= conf[i]

\* The confidence of every postcode candidate, and of every block of the
\* heuristic scan (0 where the block gives no candidate)
CandidateConfidences ==
    [i \in PostcodeCandidates(blocks) |-> PostcodeConfidence(blocks, i, PostcodeOf(blocks, i))]

HeuristicConfidences ==
    [i \in 1..Min(100, Len(blocks)) |-> HeuristicCandidate(blocks, i).conf]

\* The postcode returned is the one of the block at position i
PostcodeTakenAt(conf, i) ==
    /\ fields["postcode"] = PostcodeOf(blocks, i)
    /\ fields["postcode_confidence"] = conf[i]
    /\ Cites("postcode", blocks[i])
    /\ EarliestOfTop(conf, i)

\* The heuristic address returned is the one of the block at position i
HeuristicTakenAt(conf, i) ==
    /\ fields["site_address"] = HeuristicCandidate(blocks, i).value
    /\ fields["site_address_confidence"] = conf[i]
    /\ Cites("site_address", blocks[i])
    /\ EarliestOfTop(conf, i)

\* C28: when several postcode candidates share the highest confidence,
\* fields.postcode is the candidate of the earliest block in reading order;
\* likewise, among the heuristic address candidates of equal top confidence
\* the earliest block wins.
EarliestBlockWinsTie ==
    /\ (pc = "contact" /\ Has(fields, "postcode")) =>
          \E i \in DOMAIN CandidateConfidences : PostcodeTakenAt(CandidateConfidences, i)
    /\ (/\ pc = "prior_approval"
        /\ Has(fields, "site_address")
        /\ ~extract_site_address_from_section(blocks).found
        /\ ~extract_address_from_demolition_pattern(blocks).found) =>
          \E i \in DOMAIN HeuristicConfidences : HeuristicTakenAt(HeuristicConfidences, i)

\* Two later blocks tie at the highest postcode confidence with different
\* postcodes, after a block of a lower one.
PostcodeTieAfterLowerCandidate ==
    /\ pc = "contact"
    /\ Len(blocks) = 3
    /\ Has(fields, "postcode")
    /\ DOMAIN CandidateConfidences = {1, 2, 3}
    /\ fields["postcode"] = PostcodeOf(blocks, 2)
    /\ PostcodeOf(blocks, 3) # PostcodeOf(blocks, 2)
    /\ CandidateConfidences[1] < CandidateConfidences[2]
    /\ CandidateConfidences[3] = CandidateConfidences[2]
\* The row is pending with no confidence or one at or above the threshold
LeftAlone(vr) ==
    /\ vr.status = "pending"
    /\ vr.confidence.k = "none" \/ vr.confidence.v >= 70

\* The rows the loop has passed that it did not leave alone (an updated row
\* is no longer pending)
Processed ==
    {j \in DOMAIN session.objects :
        /\ \E k \in 1..(resolution.i - 1) :
              k <= Len(resolution.selected) /\ resolution.selected[k] = j
        /\ ~LeftAlone(session.objects[j])}

\* The reports so far are those of the processed rows, in their order
ReportsOfProcessed ==
    /\ Len(resolution.results) = Cardinality(Processed)
    /\ \A k \in DOMAIN resolution.results :
          resolution.results[k] = ReportOf(session.objects[Ascending(Processed)[k]])

\* The session and the commit at every point of the call
SessionDiscipline ==
    /\ session.commits <= 1
    /\ session.closes <= 1
    /\ pc \in {"done", "raised"} => (~session.open /\ session.closes = 1)
    /\ pc = "raised" => session.commits = 0
    /\ (pc = "done" /\ resolution.selected # << >>) => session.commits = 1
    /\ (error # "" \/ ~db.document \/ ~db.extraction) => session.commits = 0
    /\ session.commits = 1 =>
          /\ resolution.i > Len(resolution.selected)
          /\ resolution.returned = Val(resolution.results)
          /\ db.rows = session.objects
    /\ session.commits = 0 =>
          \A j \in DOMAIN session.objects :
              session.objects[j] # db.rows[j] => j \in Processed
    /\ ReportsOfProcessed

\* The store changes only by the one commit after the loop, and a row left
\* alone stays as it is in the store and in the session
StoreChangesAtCommit ==
    /\ db.rows' # db.rows =>
          /\ session.commits = 0 /\ session'.commits = 1
          /\ pc = "loop" /\ resolution.i > Len(resolution.selected)
          /\ error = ""
    /\ \A j \in DOMAIN db.rows : LeftAlone(db.rows[j]) => db'.rows[j] = db.rows[j]
    /\ \A j \in DOMAIN session.objects :
          LeftAlone(session.objects[j]) => session'.objects[j] = session.objects[j]

\* C29: in resolve_with_llm the session is closed on every exit path, and the
\* updates of the validation results are committed exactly once, only after
\* every selected result has been processed: when the document or the
\* extraction result is missing, or an LLM call raises part-way through the
\* loop, no update is committed; the results of status PENDING whose
\* confidence is absent or at least min_confidence_threshold are left
\* unchanged and are not reported.
CommitOnceCloseAlways ==
    /\ [](caller = "resolve" => SessionDiscipline)
    /\ [][caller = "resolve" => StoreChangesAtCommit]_vars

\* The LLM call raised at the second row: the first row's update is in the
\* session, the store holds the row as it was, and the session is closed.
RaisedAfterFirstUpdate ==
    /\ pc = "raised"
    /\ error = "LlmError"
    /\ resolution.i = 2
    /\ Len(resolution.results) = 1
    /\ session.objects[resolution.selected[1]] # db.rows[resolution.selected[1]]
    /\ session.commits = 0
    /\ session.closes = 1
====
